---- MODULE Spec2Model ----
(***************************************************************************)
(* A model of puff: layered, encrypted configuration documents.            *)
(*                                                                         *)
(*   Spec         the recipient lifecycle over a directory tree            *)
(*                (init, set, keys add, keys rm, decrypt, encrypt)         *)
(*   SpecLoad     the precedence resolver (config.Load) behind get         *)
(*   SpecMerge    Config.merge / Config.mergeMap on bounded value maps     *)
(*   SpecResolve  the template resolver on bounded value maps              *)
(*   SpecGenerate get and generate: load, resolve, filter, format          *)
(*   SpecSet      set and get over the tiers of a context                  *)
(*                                                                         *)
(* Strings that the code inspects character by character (config keys,     *)
(* config values) are sequences of one-character strings.  Path segments,  *)
(* recipient keys and error kinds are atoms.                               *)
(***************************************************************************)
EXTENDS Integers, Sequences, FiniteSets, TLC

VARIABLES
    disk,       \* path -> document file (the directory tree under the root)
    sopsYaml,   \* the ledger file <root>/.sops.yaml
    cfg,        \* the in-process Config / resolver input of the running command
    ret,        \* what the last command returned (and was called with)
    ops,        \* number of commands run so far
    written     \* history: (app, env, target, key) -> value of the last successful
                \* set with that context and key (kept by SpecSet only)

vars == <<disk, sopsYaml, cfg, ret, ops, written>>

(***************************************************************************)
(* Bounds                                                                  *)
(***************************************************************************)
MaxOps == 5          \* commands run in one behaviour of Spec
MaxDataKey == 2      \* distinct data keys the key service can hand out

(***************************************************************************)
(* Small helpers                                                           *)
(***************************************************************************)
Range(s) == {s[i] : i \in 1..Len(s)}

Last(s) == s[Len(s)]

Contains(s, x) == \E i \in 1..Len(s) : s[i] = x

EmptyMap == <<>>

\* m with key k bound to v (Go: m[k] = v)
MapSet(m, k, v) == [x \in (DOMAIN m) \cup {k} |-> IF x = k THEN v ELSE m[x]]

\* m without key k (Go: delete(m, k))
MapDelete(m, k) == [x \in (DOMAIN m) \ {k} |-> m[x]]

Str(cs) == [t |-> "str", s |-> cs]

(***************************************************************************)
(* Paths: sequences of segments, as filepath.Join builds them              *)
(***************************************************************************)
Dir(p) == IF Len(p) <= 1 THEN <<".">> ELSE SubSeq(p, 1, Len(p) - 1)

Base(p) == IF Len(p) = 0 THEN "." ELSE Last(p)

\* fmt.Sprintf("%s.yml", app), and the shared file
YmlName(app) ==
    CASE app = "api" -> "api.yml"
      [] app = "web" -> "web.yml"
      [] app = "shared" -> "shared.yml"

SharedYml == "shared.yml"

\* the working copy's name: strings.TrimSuffix(p, ".yml") + ".dec.yml"
DecName(name) ==
    CASE name = "shared.yml" -> "shared.dec.yml"
      [] name = "api.yml" -> "api.dec.yml"
      [] name = "web.yml" -> "web.dec.yml"

IsDecName(name) == name \in {"shared.dec.yml", "api.dec.yml", "web.dec.yml"}

\* strings.TrimSuffix(p, ".dec.yml") + ".yml"
EncName(name) ==
    CASE name = "shared.dec.yml" -> "shared.yml"
      [] name = "api.dec.yml" -> "api.yml"
      [] name = "web.dec.yml" -> "web.yml"

WithBase(p, name) == SubSeq(p, 1, Len(p) - 1) \o <<name>>

(***************************************************************************)
(* Recipient keys                                                          *)
(***************************************************************************)
K1 == "age1k1"
K2 == "age1k2"
BadKey == "notanagekey"

ValidKeys == {K1, K2}
AllKeys == ValidKeys \cup {BadKey}

\* age.MasterKeyFromRecipient succeeds
ValidRecipient(k) == k \in ValidKeys

\* strings.HasPrefix(k, "age1")
HasAge1Prefix(k) == k \in {K1, K2}

DataKeys == 1..MaxDataKey

(***************************************************************************)
(* Files                                                                   *)
(***************************************************************************)
NoFile == [exists |-> FALSE, enc |-> FALSE, recips |-> {}, dk |-> 0, vals |-> EmptyMap,
           sopsKey |-> "none", bad |-> "none"]

\* A plaintext YAML document with top-level value map vals.
PlainDoc(vals) == [exists |-> TRUE, enc |-> FALSE, recips |-> {}, dk |-> 0, vals |-> vals,
                   sopsKey |-> "none", bad |-> "none"]

\* A SOPS-encrypted document: value map vals under data key dk, wrapped for recips.
EncDoc(vals, recips, dk) == [exists |-> TRUE, enc |-> TRUE, recips |-> recips, dk |-> dk,
                             vals |-> vals, sopsKey |-> "meta", bad |-> "none"]

\* yaml.Unmarshal finds a top-level "sops" key
HasSops(doc) == doc.exists /\ doc.sopsKey # "none"

(***************************************************************************)
(* The directory tree.  WalkOrder lists every path of the model in the     *)
(* lexical order in which filepath.Walk visits them.                       *)
(***************************************************************************)
WalkOrder ==
    << <<"base", "api.yml">>,
       <<"base", "shared.dec.yml">>,
       <<"base", "shared.yml">>,
       <<"base", "web.yml">>,
       <<"dev", "api.yml">>,
       <<"dev", "shared.yml">>,
       <<"prod", "api.yml">>,
       <<"target-overrides", "t1", "base", "api.yml">>,
       <<"target-overrides", "t1", "base", "shared.yml">>,
       <<"target-overrides", "t1", "dev", "api.yml">>,
       <<"target-overrides", "t1", "dev", "shared.yml">>,
       <<"target-overrides", "t2", "dev", "api.yml">> >>

\* the files of tree d in walk order
Walk(d) == SelectSeq(WalkOrder, LAMBDA p : p \in DOMAIN d /\ d[p].exists)

FileAt(d, p) == IF p \in DOMAIN d THEN d[p] ELSE NoFile

IsPrefix(a, b) == Len(a) <= Len(b) /\ SubSeq(b, 1, Len(a)) = a

(***************************************************************************)
(* keys/sops.go                                                            *)
(***************************************************************************)
\* ExtractAgeKeys: the recipients listed in a parsed document's sops metadata
ExtractAgeKeys(doc) == IF doc.sopsKey = "meta" THEN doc.recips ELSE {}

\* the environment-filter test of findEncryptedFiles on path p
EnvMatch(p, envFilter) ==
    LET fileEnv == Dir(p)
    IN  \/ envFilter = "base" /\ (fileEnv = <<"base">> \/ fileEnv = <<".">>)
        \/ fileEnv = <<envFilter>>
        \/ Dir(fileEnv) = <<"target-overrides">> /\ Base(fileEnv) = envFilter

\* findEncryptedFiles: the documents with a top-level sops key, in walk order;
\* a document that cannot be read (unreadable) is skipped without error
findEncryptedFiles(d, envFilter, unreadable) ==
    SelectSeq(Walk(d), LAMBDA p :
        /\ envFilter # "" => EnvMatch(p, envFilter)
        /\ p \notin unreadable
        /\ HasSops(d[p]))

\* EncryptFile on the plaintext document doc with data key dk: [err, doc]
EncryptFile(doc, ageKeys, dk, fault) ==
    IF ~doc.exists THEN [err |-> "read", doc |-> doc]
    ELSE IF \E k \in ageKeys : ~ValidRecipient(k) THEN [err |-> "encrypt", doc |-> doc]
    ELSE IF fault THEN [err |-> "encrypt", doc |-> doc]
    ELSE [err |-> "ok", doc |-> EncDoc(doc.vals, ageKeys, dk)]

\* addKeyToFile: [err, doc]
addKeyToFile(doc, recipientKey, fault) ==
    IF ~doc.enc \/ fault = "load" THEN [err |-> "load", doc |-> doc]
    ELSE IF ~ValidRecipient(recipientKey) THEN [err |-> "invalid_key", doc |-> doc]
    ELSE IF recipientKey \in doc.recips THEN [err |-> "ok", doc |-> doc]
    ELSE IF fault = "datakey" THEN [err |-> "datakey", doc |-> doc]
    ELSE [err |-> "ok", doc |-> [doc EXCEPT !.recips = @ \cup {recipientKey}]]

\* hasKeys without the test: every removal is let through
hasKeys_Always(newGroup) == TRUE

\* the "at least one key remains" test of removeKeyFromFile
hasKeys(newGroup) == newGroup # {}

\* removeKeyFromFile writing the file before it tests what remains
removeKeyFromFile_WriteFirst(doc, ageKey, fault) ==
    IF ~doc.enc \/ fault = "load" THEN [err |-> "load", doc |-> doc]
    ELSE LET newGroup == doc.recips \ {ageKey}
             found == ageKey \in doc.recips
         IN  IF ~found THEN [err |-> "ok", doc |-> doc]
             ELSE IF ~hasKeys(newGroup)
             THEN [err |-> "last_key", doc |-> [doc EXCEPT !.recips = newGroup]]
             ELSE IF fault = "datakey" THEN [err |-> "datakey", doc |-> doc]
             ELSE [err |-> "ok", doc |-> [doc EXCEPT !.recips = newGroup]]

\* removeKeyFromFile: [err, doc]
removeKeyFromFile(doc, ageKey, fault) ==
    IF ~doc.enc \/ fault = "load" THEN [err |-> "load", doc |-> doc]
    ELSE LET newGroup == doc.recips \ {ageKey}
             found == ageKey \in doc.recips
         IN  IF ~found THEN [err |-> "ok", doc |-> doc]
             ELSE IF ~hasKeys(newGroup) THEN [err |-> "last_key", doc |-> doc]
             ELSE IF fault = "datakey" THEN [err |-> "datakey", doc |-> doc]
             ELSE [err |-> "ok", doc |-> [doc EXCEPT !.recips = newGroup]]

(***************************************************************************)
(* keys/sops_config.go: the ledger                                         *)
(***************************************************************************)
NoComment == "No comment"

NoLedger == [exists |-> FALSE, keys |-> <<>>, comments |-> EmptyMap]

\* getKeysFromConfig: the age1-prefixed keys of the first creation rule
getKeysFromConfig(config) == SelectSeq(config.keys, LAMBDA k : HasAge1Prefix(k))

\* SaveSOPSConfig followed by the next LoadSOPSConfig: one comment line per key
\* of the rule, "No comment" where none was recorded
SaveSOPSConfig(config) ==
    LET keys == getKeysFromConfig(config)
    IN  [exists |-> TRUE,
         keys |-> config.keys,
         comments |-> [k \in Range(keys) |->
                         IF k \in DOMAIN config.comments /\ config.comments[k] # ""
                         THEN config.comments[k] ELSE NoComment]]

\* AddKeyToSOPSConfig: [err, ledger]
AddKeyToSOPSConfig(ledger, ageKey, comment) ==
    IF ~ledger.exists THEN [err |-> "ledger_load", ledger |-> ledger]
    ELSE
    LET keys == getKeysFromConfig(ledger)
        withComment == IF comment # ""
                       THEN [ledger EXCEPT !.comments = MapSet(@, ageKey, comment)]
                       ELSE ledger
    IN  IF Contains(keys, ageKey)
        THEN [err |-> "ok", ledger |-> SaveSOPSConfig(withComment)]
        ELSE [err |-> "ok",
              ledger |-> SaveSOPSConfig([withComment EXCEPT !.keys = Append(keys, ageKey)])]

\* RemoveKeyFromSOPSConfig: [err, ledger]
RemoveKeyFromSOPSConfig(ledger, ageKey) ==
    IF ~ledger.exists THEN [err |-> "ledger_load", ledger |-> ledger]
    ELSE
    LET keys == getKeysFromConfig(ledger)
        newKeys == SelectSeq(keys, LAMBDA k : k # ageKey)
        found == Contains(keys, ageKey)
    IN  IF ~found THEN [err |-> "key_not_found", ledger |-> ledger]
        ELSE [err |-> "ok",
              ledger |-> SaveSOPSConfig([ledger EXCEPT !.comments = MapDelete(@, ageKey),
                                                       !.keys = newKeys])]

(***************************************************************************)
(* AddKey / RemoveKey: the loops over the matching files stop at the first *)
(* file that fails.  faults maps a path to the step that fails on it.      *)
(***************************************************************************)
FaultAt(faults, p) == IF p \in DOMAIN faults THEN faults[p] ELSE "none"

\* the files that os.ReadFile or yaml.Unmarshal fails on during the command
Unreadable(faults) == {p \in DOMAIN faults : faults[p] = "read"}

RECURSIVE addLoop(_, _, _, _, _)
addLoop(d, files, i, ageKey, faults) ==
    IF i > Len(files) THEN [err |-> "ok", file |-> <<>>, disk |-> d, done |-> i - 1]
    ELSE LET r == addKeyToFile(d[files[i]], ageKey, FaultAt(faults, files[i]))
         IN  IF r.err # "ok"
             THEN [err |-> r.err, file |-> files[i],
                   disk |-> [d EXCEPT ![files[i]] = r.doc], done |-> i]
             ELSE addLoop([d EXCEPT ![files[i]] = r.doc], files, i + 1, ageKey, faults)

RECURSIVE removeLoop(_, _, _, _, _)
removeLoop(d, files, i, ageKey, faults) ==
    IF i > Len(files) THEN [err |-> "ok", file |-> <<>>, disk |-> d, done |-> i - 1]
    ELSE LET r == removeKeyFromFile(d[files[i]], ageKey, FaultAt(faults, files[i]))
         IN  IF r.err # "ok"
             THEN [err |-> r.err, file |-> files[i],
                   disk |-> [d EXCEPT ![files[i]] = r.doc], done |-> i]
             ELSE removeLoop([d EXCEPT ![files[i]] = r.doc], files, i + 1, ageKey, faults)

\* AddKey: [err, file, disk, ledger, files, done]
AddKey(d, ledger, ageKey, comment, env, faults) ==
    LET files == findEncryptedFiles(d, env, Unreadable(faults))
        stop(e) == [err |-> e, file |-> <<>>, disk |-> d, ledger |-> ledger,
                    files |-> files, done |-> 0]
    IN  IF Len(files) = 0 THEN stop("no_files")
        ELSE IF ~ValidRecipient(ageKey) THEN stop("invalid_key")
        ELSE LET c == AddKeyToSOPSConfig(ledger, ageKey, comment)
             IN  IF c.err # "ok" THEN stop(c.err)
                 ELSE LET l == addLoop(d, files, 1, ageKey, faults)
                      IN  [err |-> l.err, file |-> l.file, disk |-> l.disk,
                           ledger |-> c.ledger, files |-> files, done |-> l.done]

\* RemoveKey: [err, file, disk, ledger, files, done]
RemoveKey(d, ledger, ageKey, env, faults) ==
    LET files == findEncryptedFiles(d, env, Unreadable(faults))
        stop(e) == [err |-> e, file |-> <<>>, disk |-> d, ledger |-> ledger,
                    files |-> files, done |-> 0]
    IN  IF Len(files) = 0 THEN stop("no_files")
        ELSE LET c == RemoveKeyFromSOPSConfig(ledger, ageKey)
             IN  IF c.err # "ok" THEN stop(c.err)
                 ELSE LET l == removeLoop(d, files, 1, ageKey, faults)
                      IN  [err |-> l.err, file |-> l.file, disk |-> l.disk,
                           ledger |-> c.ledger, files |-> files, done |-> l.done]

\* ListKeys: the label of the environment a file belongs to
EnvLabel(p) ==
    LET env == Dir(p)
    IN  IF env = <<"base">> \/ env = <<".">> THEN <<"base">>
        ELSE IF Dir(env) = <<"target-overrides">> THEN <<"target:", Base(env)>>
        ELSE env

\* the walk of ListKeys from the i-th file on; keyMap maps a recipient to
\* its Envs
RECURSIVE listFrom(_, _, _, _, _)
listFrom(d, files, i, unreadable, keyMap) ==
    IF i > Len(files) THEN keyMap
    ELSE LET path == files[i]
             env == EnvLabel(path)
             recipients == IF path \in unreadable \/ ~HasSops(d[path]) THEN {}
                           ELSE ExtractAgeKeys(d[path])
             Envs(k) == IF k \in DOMAIN keyMap THEN keyMap[k] ELSE <<>>
         IN  listFrom(d, files, i + 1, unreadable,
                      [k \in DOMAIN keyMap \cup recipients |->
                          IF k \in recipients /\ ~Contains(Envs(k), env)
                          THEN Append(Envs(k), env) ELSE Envs(k)])

\* ListKeys: [err, keys]; walk says whether filepath.Walk can enter the root
ListKeys(d, unreadable, walk) ==
    IF ~walk THEN [err |-> "walk", keys |-> EmptyMap]
    ELSE [err |-> "ok", keys |-> listFrom(d, Walk(d), 1, unreadable, EmptyMap)]

(***************************************************************************)
(* commands: set (generate.go), init (init.go), decrypt, encrypt           *)
(***************************************************************************)
PUFF_INITIALIZED == <<"_", "P", "U", "F", "F", "_", "I", "N", "I", "T">>

TrueText == <<"t", "r", "u", "e">>

\* getDirectoryEncryptionKeys: the recipients of every document with sops
\* metadata under rootDir
getDirectoryEncryptionKeys(d, rootDir) ==
    UNION {ExtractAgeKeys(d[p]) : p \in {q \in DOMAIN d : IsPrefix(rootDir, q) /\ HasSops(d[q])}}

\* the "no encryption keys" guard of setAction
NoDirectoryKeys(directoryAgeKeys) == directoryAgeKeys = {}

\* the file setAction updates for (app, env, target)
SetPath(app, env, target) ==
    LET name == IF app # "" THEN YmlName(app) ELSE SharedYml
    IN  IF target # ""
        THEN <<"target-overrides", target, IF env = "" THEN "base" ELSE env, name>>
        ELSE IF env # "" THEN <<env, name>>
        ELSE IF app # "" THEN <<"base", YmlName(app)>>
        ELSE <<"base", SharedYml>>

\* decrypt.File succeeds on a SOPS document whose data key can be unwrapped
CanDecrypt(doc, fault) == doc.enc /\ ~fault

\* setAction without the call of EncryptFile
setAction_NoEncrypt(d, key, value, app, env, target, dk, fault) ==
    LET directoryAgeKeys == getDirectoryEncryptionKeys(d, <<>>)
        filePath == SetPath(app, env, target)
        old == FileAt(d, filePath)
    IN  IF NoDirectoryKeys(directoryAgeKeys) THEN [err |-> "no_keys", disk |-> d]
        ELSE IF old.exists /\ HasSops(old) /\ ~CanDecrypt(old, fault = "decrypt")
        THEN [err |-> "decrypt", disk |-> d]
        ELSE LET config == MapSet(IF old.exists THEN old.vals ELSE EmptyMap, key, value)
             IN  [err |-> "ok", disk |-> [d EXCEPT ![filePath] = PlainDoc(config)]]

\* setAction: [err, disk]
setAction(d, key, value, app, env, target, dk, fault) ==
    LET directoryAgeKeys == getDirectoryEncryptionKeys(d, <<>>)
        filePath == SetPath(app, env, target)
        old == FileAt(d, filePath)
    IN  IF NoDirectoryKeys(directoryAgeKeys) THEN [err |-> "no_keys", disk |-> d]
        ELSE IF old.exists /\ HasSops(old) /\ ~CanDecrypt(old, fault = "decrypt")
        THEN [err |-> "decrypt", disk |-> d]
        ELSE LET config == MapSet(IF old.exists THEN old.vals ELSE EmptyMap, key, value)
                 plain == PlainDoc(config)
                 e == EncryptFile(plain, directoryAgeKeys, dk, fault = "encrypt")
             IN  [err |-> e.err, disk |-> [d EXCEPT ![filePath] = e.doc]]

\* initAction: [err, disk, ledger]
initAction(d, ledger, ageKeys, dk, fault) ==
    LET sharedYml == <<"base", SharedYml>>
        content == MapSet(EmptyMap, PUFF_INITIALIZED, Str(TrueText))
        e == IF d[sharedYml].exists THEN [err |-> "ok", doc |-> d[sharedYml]]
             ELSE EncryptFile(PlainDoc(content), Range(ageKeys), dk, fault)
        d2 == [d EXCEPT ![sharedYml] = e.doc]
    IN  IF Len(ageKeys) = 0 THEN [err |-> "no_keys", disk |-> d, ledger |-> ledger]
        ELSE IF \E k \in Range(ageKeys) : ~HasAge1Prefix(k)
        THEN [err |-> "invalid_key", disk |-> d, ledger |-> ledger]
        ELSE IF e.err # "ok" THEN [err |-> e.err, disk |-> d2, ledger |-> ledger]
        ELSE [err |-> "ok", disk |-> d2,
              ledger |-> IF ledger.exists THEN ledger
                         ELSE [exists |-> TRUE, keys |-> ageKeys, comments |-> EmptyMap]]

\* decryptAction: [err, disk]
decryptAction(d, filePath, fault) ==
    LET doc == FileAt(d, filePath)
        outputPath == WithBase(filePath, DecName(Base(filePath)))
    IN  IF ~doc.exists THEN [err |-> "not_exist", disk |-> d]
        ELSE IF ~HasSops(doc) THEN [err |-> "not_encrypted", disk |-> d]
        ELSE IF ~CanDecrypt(doc, fault) THEN [err |-> "decrypt", disk |-> d]
        ELSE [err |-> "ok", disk |-> [d EXCEPT ![outputPath] = PlainDoc(doc.vals)]]

\* encryptAction that encrypts the original's values again, not the working
\* copy's
encryptAction_KeepOriginal(d, decFilePath, dk, fault) ==
    LET dec == FileAt(d, decFilePath)
        encFilePath == WithBase(decFilePath, EncName(Base(decFilePath)))
        orig == FileAt(d, encFilePath)
        fromFile == IF orig.exists THEN ExtractAgeKeys(orig) ELSE {}
        ageKeys == IF fromFile # {} THEN fromFile
                   ELSE getDirectoryEncryptionKeys(d, Dir(Dir(encFilePath)))
    IN  IF ~dec.exists THEN [err |-> "not_exist", disk |-> d]
        ELSE IF ~IsDecName(Base(decFilePath)) THEN [err |-> "not_dec", disk |-> d]
        ELSE IF ageKeys = {} THEN [err |-> "no_keys", disk |-> d]
        ELSE LET e == EncryptFile(PlainDoc(orig.vals), ageKeys, dk, fault = "encrypt")
                 d2 == [d EXCEPT ![encFilePath] = e.doc]
             IN  IF e.err # "ok" THEN [err |-> e.err, disk |-> d2]
                 ELSE IF fault = "cleanup" THEN [err |-> "cleanup", disk |-> d2]
                 ELSE [err |-> "ok", disk |-> [d2 EXCEPT ![decFilePath] = NoFile]]

\* encryptAction: [err, disk]
encryptAction(d, decFilePath, dk, fault) ==
    LET dec == FileAt(d, decFilePath)
        encFilePath == WithBase(decFilePath, EncName(Base(decFilePath)))
        orig == FileAt(d, encFilePath)
        fromFile == IF orig.exists THEN ExtractAgeKeys(orig) ELSE {}
        ageKeys == IF fromFile # {} THEN fromFile
                   ELSE getDirectoryEncryptionKeys(d, Dir(Dir(encFilePath)))
    IN  IF ~dec.exists THEN [err |-> "not_exist", disk |-> d]
        ELSE IF ~IsDecName(Base(decFilePath)) THEN [err |-> "not_dec", disk |-> d]
        ELSE IF ageKeys = {} THEN [err |-> "no_keys", disk |-> d]
        ELSE LET e == EncryptFile(PlainDoc(dec.vals), ageKeys, dk, fault = "encrypt")
                 d2 == [d EXCEPT ![encFilePath] = e.doc]
             IN  IF e.err # "ok" THEN [err |-> e.err, disk |-> d2]
                 ELSE IF fault = "cleanup" THEN [err |-> "cleanup", disk |-> d2]
                 ELSE [err |-> "ok", disk |-> [d2 EXCEPT ![decFilePath] = NoFile]]

(***************************************************************************)
(* Spec: the recipient lifecycle                                           *)
(***************************************************************************)
KeyPaths ==
    { <<"base", "shared.dec.yml">>,
      <<"base", "shared.yml">>,
      <<"dev", "shared.yml">> }

KEY == <<"K">>

V1 == Str(<<"a">>)

Ret0 == [op |-> "none", err |-> "ok", key |-> "", env |-> "", comment |-> "",
         file |-> <<>>, unreadable |-> {}, listed |-> EmptyMap]

NoCfg == [Values |-> EmptyMap, files |-> <<>>]

NoFaults == EmptyMap

\* the faults of one keys command: none, or the data key of one document
\* cannot be unwrapped, or one document cannot be read
FaultChoices == {NoFaults} \cup
    {MapSet(EmptyMap, p, f) : p \in {<<"base", "shared.yml">>, <<"dev", "shared.yml">>},
                              f \in {"datakey", "read"}}

\* GenerateDataKey: a data key other than the one the file had
FreshDataKey(old) == (old % MaxDataKey) + 1

Init ==
    /\ disk = [p \in KeyPaths |-> NoFile]
    /\ sopsYaml = NoLedger
    /\ cfg = NoCfg
    /\ ret = Ret0
    /\ ops = 0
    /\ written = EmptyMap

InitCmd ==
    /\ ops < MaxOps
    /\ \E ageKeys \in {<<>>, <<K1>>, <<K1, K2>>, <<BadKey>>}, fault \in BOOLEAN :
          LET r == initAction(disk, sopsYaml, ageKeys, FreshDataKey(0), fault)
          IN  /\ disk' = r.disk
              /\ sopsYaml' = r.ledger
              /\ ret' = [Ret0 EXCEPT !.op = "init", !.err = r.err]
    /\ ops' = ops + 1
    /\ UNCHANGED <<cfg, written>>

SetCmd ==
    /\ ops < MaxOps
    /\ \E env \in {"", "dev"}, fault \in {"none", "decrypt", "encrypt"} :
          LET filePath == SetPath("", env, "")
              r == setAction(disk, KEY, V1, "", env, "", FreshDataKey(disk[filePath].dk),
                             fault)
          IN  /\ disk' = r.disk
              /\ ret' = [Ret0 EXCEPT !.op = "set", !.err = r.err, !.env = env,
                                     !.file = filePath]
    /\ ops' = ops + 1
    /\ UNCHANGED <<sopsYaml, cfg, written>>

KeysAddCmd ==
    /\ ops < MaxOps
    /\ \E key \in AllKeys, comment \in {"", "laptop"}, env \in {"", "base", "dev"},
          faults \in FaultChoices :
          LET r == AddKey(disk, sopsYaml, key, comment, env, faults)
          IN  /\ disk' = r.disk
              /\ sopsYaml' = r.ledger
              /\ ret' = [Ret0 EXCEPT !.op = "add", !.err = r.err, !.key = key,
                                     !.env = env, !.comment = comment, !.file = r.file,
                                     !.unreadable = Unreadable(faults)]
    /\ ops' = ops + 1
    /\ UNCHANGED <<cfg, written>>

KeysRmCmd ==
    /\ ops < MaxOps
    /\ \E key \in AllKeys, env \in {"", "base", "dev"}, faults \in FaultChoices :
          LET r == RemoveKey(disk, sopsYaml, key, env, faults)
          IN  /\ disk' = r.disk
              /\ sopsYaml' = r.ledger
              /\ ret' = [Ret0 EXCEPT !.op = "rm", !.err = r.err, !.key = key,
                                     !.env = env, !.file = r.file,
                                     !.unreadable = Unreadable(faults)]
    /\ ops' = ops + 1
    /\ UNCHANGED <<cfg, written>>

DecryptCmd ==
    /\ ops < MaxOps
    /\ \E fault \in BOOLEAN :
          LET r == decryptAction(disk, <<"base", "shared.yml">>, fault)
          IN  /\ disk' = r.disk
              /\ ret' = [Ret0 EXCEPT !.op = "decrypt", !.err = r.err,
                                     !.file = <<"base", "shared.yml">>]
    /\ ops' = ops + 1
    /\ UNCHANGED <<sopsYaml, cfg, written>>

EncryptCmd ==
    /\ ops < MaxOps
    /\ \E fault \in {"none", "encrypt", "cleanup"} :
          LET r == encryptAction(disk, <<"base", "shared.dec.yml">>,
                                 FreshDataKey(disk[<<"base", "shared.yml">>].dk), fault)
          IN  /\ disk' = r.disk
              /\ ret' = [Ret0 EXCEPT !.op = "encrypt", !.err = r.err,
                                     !.file = <<"base", "shared.dec.yml">>]
    /\ ops' = ops + 1
    /\ UNCHANGED <<sopsYaml, cfg, written>>

KeysListCmd ==
    /\ ops < MaxOps
    /\ \E faults \in FaultChoices, walk \in BOOLEAN :
          LET r == ListKeys(disk, Unreadable(faults), walk)
          IN  ret' = [Ret0 EXCEPT !.op = "list", !.err = r.err, !.listed = r.keys,
                                  !.unreadable = Unreadable(faults)]
    /\ ops' = ops + 1
    /\ UNCHANGED <<disk, sopsYaml, cfg, written>>

Next ==
    \/ InitCmd
    \/ SetCmd
    \/ KeysAddCmd
    \/ KeysRmCmd
    \/ KeysListCmd
    \/ DecryptCmd
    \/ EncryptCmd

Spec == Init /\ [][Next]_vars

(***************************************************************************)
(* Claims about the recipient lifecycle (Spec)                             *)
(***************************************************************************)
EncryptedDocs == {p \in DOMAIN disk : disk[p].exists /\ disk[p].enc}

\* C1: after any sequence of init, set, keys add, keys rm, decrypt and encrypt
\* commands, failed or not, every encrypted document on disk has at least one
\* recipient.
C1_EncryptedHasRecipient ==
    \A p \in EncryptedDocs : disk[p].recips # {}

\* C1 witness: a keys rm has failed on the last key of a file and a keys rm has
\* succeeded elsewhere before: two encrypted documents, one with a single recipient.
C1_Witness ==
    /\ ret.op = "rm" /\ ret.err = "last_key"
    /\ Cardinality(EncryptedDocs) = 2
    /\ \E p \in EncryptedDocs : Cardinality(disk[p].recips) = 2

\* the position of path p in the file list fs (0: not in it)
IndexOf(fs, p) == IF Contains(fs, p) THEN CHOOSE i \in 1..Len(fs) : fs[i] = p ELSE 0

\* the step is a keys rm whose loop applied removeKeyFromFile to p
RmReached(p) ==
    LET files == findEncryptedFiles(disk, ret'.env, ret'.unreadable)
    IN  /\ ret'.op = "rm" /\ ops' = ops + 1
        /\ ret'.err \notin {"no_files", "ledger_load", "key_not_found"}
        /\ Contains(files, p)
        /\ (ret'.err = "ok" \/ IndexOf(files, ret'.file) >= IndexOf(files, p))

RecipientsInUse == UNION {disk[p].recips : p \in EncryptedDocs}

\* C3 (as claimed): once a keys add or keys rm has returned, the keys of the
\* ledger are exactly the recipients embedded in the encrypted documents.
C3_LedgerEqualsUnion ==
    ret.op \in {"add", "rm"} => Range(sopsYaml.keys) = RecipientsInUse

\* the step is a keys add of a key that is already a recipient of the
\* matching document p, with a comment
AddOfRecipient(p) ==
    /\ ret'.op = "add" /\ ops' = ops + 1
    /\ Contains(findEncryptedFiles(disk, ret'.env, ret'.unreadable), p)
    /\ ret'.key \in disk[p].recips
    /\ ret'.comment # ""

\* C11 (as claimed): keys add of a key that is already a recipient of a
\* matching document succeeds (short of a data key that cannot be unwrapped
\* in another document), leaves that document as it was, leaves the key set
\* of the ledger unchanged and sets the ledger comment of the key to the
\* given comment.
C11_AddExistingIsNoOp ==
    [][\A p \in DOMAIN disk :
          AddOfRecipient(p)
             => /\ ret'.err \in {"ok", "datakey"}
                /\ disk'[p] = disk[p]
                /\ Range(sopsYaml'.keys) = Range(sopsYaml.keys)
                /\ ret'.key \in DOMAIN sopsYaml'.comments
                /\ sopsYaml'.comments[ret'.key] = ret'.comment]_vars

\* the step is a keys rm that got past the ledger
RmStep ==
    /\ ret'.op = "rm" /\ ops' = ops + 1
    /\ ret'.err \notin {"no_files", "ledger_load", "key_not_found"}

\* C12 (as claimed): keys rm drops the key from the ledger only if no
\* encrypted document under the root has the key as a recipient afterwards.
C12_LedgerDropOnlyIfUnused ==
    [][(/\ ret'.op = "rm" /\ ops' = ops + 1
        /\ Contains(sopsYaml.keys, ret'.key)
        /\ ~Contains(sopsYaml'.keys, ret'.key))
          => \A p \in DOMAIN disk' :
                (disk'[p].exists /\ disk'[p].enc) => ret'.key \notin disk'[p].recips]_vars

\* C13 (as claimed): a document that keys rm has removed the key from is
\* protected by a data key other than the one it had before.
C13_DataKeyRotated ==
    [][\A p \in DOMAIN disk :
          (/\ RmStep
           /\ disk[p].enc /\ ret'.key \in disk[p].recips
           /\ disk'[p].enc /\ ret'.key \notin disk'[p].recips)
             => disk'[p].dk # disk[p].dk]_vars

\* C14 (as claimed): when keys rm matches several documents, one of which
\* has the key as its only recipient, the command fails with the last-key
\* error, that document stays as it was, and the key is removed from every
\* other matching document that has another recipient (no document being
\* unreadable and no data key failing).
C14_OthersStillRemoved ==
    [][\A p \in DOMAIN disk :
          (/\ RmStep /\ ret'.err # "datakey" /\ ret'.unreadable = {}
           /\ Contains(findEncryptedFiles(disk, ret'.env, {}), p)
           /\ disk[p].recips = {ret'.key})
             => /\ ret'.err = "last_key"
                /\ disk'[p] = disk[p]
                /\ \A q \in Range(findEncryptedFiles(disk, ret'.env, {})) :
                      disk[q].recips # {ret'.key} => ret'.key \notin disk'[q].recips]_vars

\* C15 (as claimed): keys add with a key that is no valid recipient fails
\* with the invalid-key error and leaves every document and the ledger as
\* they were.
C15_InvalidKeyRejected ==
    [][(ret'.op = "add" /\ ops' = ops + 1 /\ ~ValidRecipient(ret'.key))
          => /\ ret'.err = "invalid_key"
             /\ disk' = disk
             /\ sopsYaml' = sopsYaml]_vars

\* C16 (as claimed): keys list, keys add and keys rm fail when a document
\* under the root (within the environment filter) cannot be read or parsed.
C16_UnreadableAborts ==
    (/\ ret.op \in {"list", "add", "rm"}
     /\ \E p \in ret.unreadable :
           disk[p].exists /\ (ret.env # "" => EnvMatch(p, ret.env)))
        => ret.err # "ok"

WorkingCopy == <<"base", "shared.dec.yml">>

Original == <<"base", "shared.yml">>

\* C19: a successful encrypt of the working copy of an existing encrypted
\* document removes the working copy and leaves the document encrypted,
\* with the value map of the working copy and the recipients the document
\* had before.
C19_EncryptRestores ==
    [][(/\ ret'.op = "encrypt" /\ ret'.err = "ok" /\ ops' = ops + 1
        /\ disk[Original].exists /\ disk[Original].enc)
          => /\ ~disk'[WorkingCopy].exists
             /\ disk'[Original].exists /\ disk'[Original].enc
             /\ HasSops(disk'[Original])
             /\ disk'[Original].vals = disk[WorkingCopy].vals
             /\ ExtractAgeKeys(disk'[Original]) = ExtractAgeKeys(disk[Original])]_vars

\* C19 witness: an encrypt has succeeded; the document is encrypted for its
\* two recipients, holds the values of the working copy, and the working
\* copy is gone
C19_Witness ==
    /\ ret.op = "encrypt" /\ ret.err = "ok"
    /\ ~disk[WorkingCopy].exists
    /\ disk[Original].enc
    /\ disk[Original].recips = {K1, K2}
    /\ KEY \notin DOMAIN disk[Original].vals
    /\ ret.file = WorkingCopy

(***************************************************************************)
(* Values of a value map: strings, numbers, booleans, nested maps and      *)
(* sequences, tagged by their Go type; each type keeps its payload in a     *)
(* field of its own                                                        *)
(***************************************************************************)
Num(n) == [t |-> "num", n |-> n]

Bool(b) == [t |-> "bool", b |-> b]

MapV(m) == [t |-> "map", m |-> m]

SeqV(q) == [t |-> "seq", q |-> q]

\* value.(map[string]interface{}) succeeds
IsMap(value) == value.t = "map"

(***************************************************************************)
(* config: merge and mergeMap.  Both range over the keys of the incoming   *)
(* map and update the existing map one key at a time.                      *)
(***************************************************************************)
\* mergeMap that replaces a nested map instead of descending into it
RECURSIVE mergeMap_Shallow(_, _)
mergeMap_Shallow(existing, new) ==
    IF DOMAIN new = {} THEN existing
    ELSE LET key == CHOOSE k \in DOMAIN new : TRUE
             rest == MapDelete(new, key)
         IN  mergeMap_Shallow(MapSet(existing, key, new[key]), rest)

RECURSIVE mergeMap(_, _)
mergeMap(existing, new) ==
    IF DOMAIN new = {} THEN existing
    ELSE LET key == CHOOSE k \in DOMAIN new : TRUE
             value == new[key]
             rest == MapDelete(new, key)
         IN  IF key \in DOMAIN existing /\ IsMap(existing[key]) /\ IsMap(value)
             THEN mergeMap(MapSet(existing, key, MapV(mergeMap(existing[key].m, value.m))),
                           rest)
             ELSE mergeMap(MapSet(existing, key, value), rest)

RECURSIVE merge(_, _)
merge(Values, new) ==
    IF DOMAIN new = {} THEN Values
    ELSE LET key == CHOOSE k \in DOMAIN new : TRUE
             value == new[key]
             rest == MapDelete(new, key)
         IN  IF key \in DOMAIN Values /\ IsMap(Values[key]) /\ IsMap(value)
             THEN merge(MapSet(Values, key, MapV(mergeMap(Values[key].m, value.m))), rest)
             ELSE merge(MapSet(Values, key, value), rest)

(***************************************************************************)
(* SpecMerge: Config.merge applied once to an accumulator and an incoming  *)
(* map, both drawn from the value maps of nesting depth three over a few   *)
(* keys and scalars                                                        *)
(***************************************************************************)
MaxScalar == 3

\* the partial maps from keys to vals
PartialMaps(keys, vals) == UNION {[d -> vals] : d \in SUBSET keys}

Leaves == {Num(n) : n \in 1..MaxScalar} \cup {SeqV(<<Num(1)>>)}

\* keys N, K at the top; X, Y under N; P under N.X
Depth1Maps == PartialMaps({<<"P">>}, Leaves)

Depth2Maps ==
    {mx @@ my : mx \in PartialMaps({<<"X">>}, Leaves \cup {MapV(m) : m \in Depth1Maps}),
                my \in PartialMaps({<<"Y">>}, Leaves)}

MergeMaps ==
    {mn @@ mk : mn \in PartialMaps({<<"N">>}, Leaves \cup {MapV(m) : m \in Depth2Maps}),
                mk \in PartialMaps({<<"K">>}, Leaves)}

InitMerge ==
    /\ disk = EmptyMap
    /\ sopsYaml = NoLedger
    /\ cfg \in {[Values |-> m, files |-> <<>>] : m \in MergeMaps}
    /\ ret \in {[op |-> "none", new |-> m] : m \in MergeMaps}
    /\ ops = 0
    /\ written = EmptyMap

\* c.merge(values), as loadFile calls it
MergeStep ==
    /\ ret.op = "none"
    /\ cfg' = [cfg EXCEPT !.Values = merge(cfg.Values, ret.new)]
    /\ ret' = [ret EXCEPT !.op = "merge"]
    /\ UNCHANGED <<disk, sopsYaml, ops, written>>

NextMerge == MergeStep

SpecMerge == InitMerge /\ [][NextMerge]_vars

\* what the claim says the merge of e and n is, r being the result
RECURSIVE MergedAsClaimed(_, _, _)
MergedAsClaimed(e, n, r) ==
    /\ DOMAIN r = DOMAIN e \cup DOMAIN n
    /\ \A k \in DOMAIN r :
          IF k \notin DOMAIN n THEN r[k] = e[k]
          ELSE IF k \in DOMAIN e /\ e[k].t = "map" /\ n[k].t = "map"
          THEN r[k].t = "map" /\ MergedAsClaimed(e[k].m, n[k].m, r[k].m)
          ELSE r[k] = n[k]

ExampleExisting ==
    (<<"N">> :> MapV(<<"X">> :> Num(1) @@ <<"Y">> :> Num(2)))

ExampleIncoming == (<<"N">> :> MapV(<<"Y">> :> Num(3)))

ExampleMerged == (<<"N">> :> MapV(<<"X">> :> Num(1) @@ <<"Y">> :> Num(3)))

\* C6: merging an incoming map into the accumulator gives, key by key, the
\* recursive merge where both values are nested maps, the incoming value in
\* every other combination, and the existing value where the incoming map
\* has no such key; merge({N:{X:1,Y:2}}, {N:{Y:3}}) = {N:{X:1,Y:3}}.
C6_DeepMerge ==
    [][MergeStep =>
          /\ MergedAsClaimed(cfg.Values, ret.new, cfg'.Values)
          /\ (cfg.Values = ExampleExisting /\ ret.new = ExampleIncoming)
                => cfg'.Values = ExampleMerged]_vars

\* C6 witness: the merge has descended two levels, kept a key the incoming
\* map lacks, and replaced a nested map by a scalar.
C6_Witness ==
    /\ ret.op = "merge"
    /\ <<"N">> \in DOMAIN ret.new /\ ret.new[<<"N">>].t = "map"
    /\ <<"X">> \in DOMAIN ret.new[<<"N">>].m
    /\ ret.new[<<"N">>].m[<<"X">>] = MapV(<<"P">> :> Num(2))
    /\ <<"K">> \in DOMAIN ret.new /\ ret.new[<<"K">>] = Num(1)
    /\ cfg.Values = (<<"N">> :> MapV(<<"X">> :> MapV(<<"P">> :> Num(2)) @@ <<"Y">> :> Num(3))
                     @@ <<"K">> :> Num(1))

(***************************************************************************)
(* templating: text is a sequence of one-character strings                 *)
(***************************************************************************)
\* the characters in use, in byte order
Alphabet ==
    <<" ", "\"", "$", "'", ",", "-", ".", "0", "1", "2", "3", "4", "5", "6", "7", "8", "9",
      ":", "=",
      "A", "B", "C", "D", "E", "F", "G", "H", "I", "J", "K", "L", "M", "N", "O", "P", "Q",
      "R", "S", "T", "U", "V", "W", "X", "Y", "Z", "[", "\\", "]", "_",
      "a", "b", "c", "d", "e", "f", "g", "h", "i", "j", "k", "l", "m", "n", "o", "p", "q",
      "r", "s", "t", "u", "v", "w", "x", "y", "z", "{", "}">>

Digits == <<"0", "1", "2", "3", "4", "5", "6", "7", "8", "9">>

\* "${" + varName + "}", match[0] of the pattern
Ref(varName) == <<"$", "{">> \o varName \o <<"}">>

\* strings.Index(s[i:], c), as a position of s; 0 when there is none
RECURSIVE IndexFrom(_, _, _)
IndexFrom(s, c, i) ==
    IF i > Len(s) THEN 0
    ELSE IF s[i] = c THEN i
    ELSE IndexFrom(s, c, i + 1)

\* the leftmost, non-overlapping matches of \$\{([^}]+)\} from position i on:
\* the captured names, in order
RECURSIVE FindAllFrom(_, _)
FindAllFrom(s, i) ==
    IF i + 3 > Len(s) THEN <<>>
    ELSE IF s[i] = "$" /\ s[i + 1] = "{"
    THEN LET j == IndexFrom(s, "}", i + 2)
         IN  IF j > i + 2
             THEN <<SubSeq(s, i + 2, j - 1)>> \o FindAllFrom(s, j + 1)
             ELSE FindAllFrom(s, i + 1)
    ELSE FindAllFrom(s, i + 1)

FindAllStringSubmatch(s) == FindAllFrom(s, 1)

HasPrefixAt(s, old, i) ==
    /\ i + Len(old) - 1 <= Len(s)
    /\ SubSeq(s, i, i + Len(old) - 1) = old

RECURSIVE ReplaceAllFrom(_, _, _, _)
ReplaceAllFrom(s, old, new, i) ==
    IF i > Len(s) THEN <<>>
    ELSE IF HasPrefixAt(s, old, i)
    THEN new \o ReplaceAllFrom(s, old, new, i + Len(old))
    ELSE <<s[i]>> \o ReplaceAllFrom(s, old, new, i + 1)

\* strings.ReplaceAll, old not empty
ReplaceAll(s, old, new) == ReplaceAllFrom(s, old, new, 1)

RECURSIVE Itoa(_)
Itoa(n) == IF n < 10 THEN <<Digits[n + 1]>> ELSE Itoa(n \div 10) \o <<Digits[(n % 10) + 1]>>

RECURSIVE Sprintf(_)
RECURSIVE SprintfElems(_, _)
\* the elements of a slice from the i-th on, separated by spaces
SprintfElems(q, i) ==
    IF i > Len(q) THEN <<>>
    ELSE (IF i > 1 THEN <<" ">> ELSE <<>>) \o Sprintf(q[i]) \o SprintfElems(q, i + 1)

\* fmt.Sprintf("%v", value) for strings, non-negative integers, booleans
\* and slices of them
Sprintf(value) ==
    CASE value.t = "str" -> value.s
      [] value.t = "num" -> Itoa(value.n)
      [] value.t = "bool" -> IF value.b THEN <<"t", "r", "u", "e">>
                             ELSE <<"f", "a", "l", "s", "e">>
      [] value.t = "seq" -> <<"[">> \o SprintfElems(value.q, 1) \o <<"]">>

(***************************************************************************)
(* templating.Resolver.  A result carries the error kind, the key and the  *)
(* variable name the error message quotes, the resolved value, and the     *)
(* keys whose string value was scanned for references.                     *)
(***************************************************************************)
NoName == <<>>

NilValue == Str(<<>>)

Resolved(value, seen) ==
    [err |-> "ok", key |-> NoName, ref |-> NoName, val |-> value, seen |-> seen]

\* "circular dependency detected for variable: <key>"
circularError(key, seen) ==
    [err |-> "circular", key |-> key, ref |-> NoName, val |-> NilValue, seen |-> seen]

\* the error quoting the two names the other way round
undefinedError_Swapped(varName, key, seen) ==
    [err |-> "undefined", key |-> varName, ref |-> key, val |-> NilValue, seen |-> seen]

\* "undefined variable referenced: <varName> (in <key>)"
undefinedError(varName, key, seen) ==
    [err |-> "undefined", key |-> key, ref |-> varName, val |-> NilValue, seen |-> seen]

RECURSIVE resolveValue(_, _, _, _)
\* resolveMatches in which a key stays in the resolving set after its own
\* resolution has returned
RECURSIVE resolveMatches_KeepResolving(_, _, _, _, _, _, _)
resolveMatches_KeepResolving(values, key, matches, i, result, resolving, seen) ==
    IF i > Len(matches) THEN Resolved(Str(result), seen)
    ELSE LET varName == matches[i]
         IN  IF varName \notin DOMAIN values
             THEN undefinedError(varName, key, seen)
             ELSE LET r == resolveValue(values, varName, values[varName], resolving)
                  IN  IF r.err # "ok"
                      THEN [r EXCEPT !.seen = seen \cup r.seen]
                      ELSE resolveMatches_KeepResolving(
                               values, key, matches, i + 1,
                               ReplaceAll(result, Ref(varName), Sprintf(r.val)),
                               resolving \cup {varName}, seen \cup r.seen)

RECURSIVE resolveMatches(_, _, _, _, _, _, _)
\* for _, match := range matches, from the i-th match on; resolving holds key
resolveMatches(values, key, matches, i, result, resolving, seen) ==
    IF i > Len(matches) THEN Resolved(Str(result), seen)
    ELSE LET varName == matches[i]
         IN  IF varName \notin DOMAIN values
             THEN undefinedError(varName, key, seen)
             ELSE LET r == resolveValue(values, varName, values[varName], resolving)
                  IN  IF r.err # "ok"
                      THEN [r EXCEPT !.seen = seen \cup r.seen]
                      ELSE resolveMatches(values, key, matches, i + 1,
                                          ReplaceAll(result, Ref(varName), Sprintf(r.val)),
                                          resolving, seen \cup r.seen)

resolveValue(values, key, value, resolving) ==
    IF key \in resolving THEN circularError(key, {})
    ELSE IF value.t # "str" THEN Resolved(value, {})
    ELSE LET matches == FindAllStringSubmatch(value.s)
         IN  IF Len(matches) = 0 THEN Resolved(value, {key})
             ELSE resolveMatches(values, key, matches, 1, value.s,
                                 resolving \cup {key}, {key})

\* the orders in which a range over the map can visit its keys
Perms(S) == {q \in [1..Cardinality(S) -> S] : Range(q) = S}

\* values is r.values, the resolver's input map, as the call leaves it
NoResolution ==
    [err |-> "ok", key |-> NoName, ref |-> NoName, resolved |-> EmptyMap,
     nilMap |-> FALSE, seen |-> {}, values |-> EmptyMap]

\* Resolve that leaves a key it cannot resolve out of the result
RECURSIVE ResolveFrom_SkipFailed(_, _, _, _, _)
ResolveFrom_SkipFailed(values, order, i, resolved, seen) ==
    IF i > Len(order)
    THEN [NoResolution EXCEPT !.resolved = resolved, !.seen = seen, !.values = values]
    ELSE LET key == order[i]
             r == resolveValue(values, key, values[key], {})
         IN  IF r.err # "ok"
             THEN ResolveFrom_SkipFailed(values, order, i + 1, resolved, seen \cup r.seen)
             ELSE ResolveFrom_SkipFailed(values, order, i + 1, MapSet(resolved, key, r.val),
                                         seen \cup r.seen)

\* Resolve that stores each resolved value in r.values as well
RECURSIVE ResolveFrom_InPlace(_, _, _, _, _)
ResolveFrom_InPlace(values, order, i, resolved, seen) ==
    IF i > Len(order)
    THEN [NoResolution EXCEPT !.resolved = resolved, !.seen = seen, !.values = values]
    ELSE LET key == order[i]
             r == resolveValue(values, key, values[key], {})
         IN  IF r.err # "ok"
             THEN [NoResolution EXCEPT !.err = r.err, !.key = r.key, !.ref = r.ref,
                                       !.nilMap = TRUE, !.seen = seen \cup r.seen,
                                       !.values = values]
             ELSE ResolveFrom_InPlace(MapSet(values, key, r.val), order, i + 1,
                                      MapSet(resolved, key, r.val), seen \cup r.seen)

\* for key, value := range r.values, from the i-th key of the order on
RECURSIVE ResolveFrom(_, _, _, _, _)
ResolveFrom(values, order, i, resolved, seen) ==
    IF i > Len(order)
    THEN [NoResolution EXCEPT !.resolved = resolved, !.seen = seen, !.values = values]
    ELSE LET key == order[i]
             r == resolveValue(values, key, values[key], {})
         IN  IF r.err # "ok"
             THEN [NoResolution EXCEPT !.err = r.err, !.key = r.key, !.ref = r.ref,
                                       !.nilMap = TRUE, !.seen = seen \cup r.seen,
                                       !.values = values]
             ELSE ResolveFrom(values, order, i + 1, MapSet(resolved, key, r.val),
                              seen \cup r.seen)

Resolve(values, order) == ResolveFrom(values, order, 1, EmptyMap, {})

(***************************************************************************)
(* SpecResolve: Resolve applied once to a value map over NumKeys keys;     *)
(* a key holds a literal, a number, or text referring to keys of the map   *)
(* and to a name that is no key                                            *)
(***************************************************************************)
NumKeys == 3

KeyNames == <<(<<"A">>), (<<"B">>), (<<"C">>), (<<"D">>)>>

TemplateKeys == {KeyNames[i] : i \in 1..NumKeys}

\* a name that is never a key
Undefined == <<"U">>

\* "$${B}": a dollar sign in front of a reference to the second key
DollarRef == Str(<<"$">> \o Ref(KeyNames[2]))

\* "{A}": the name of the first key in braces, without the dollar sign
BracedName == Str(<<"{">> \o KeyNames[1] \o <<"}">>)

\* "${B}${C}": references to the second and the third key
TwoRefs == Str(Ref(KeyNames[2]) \o Ref(KeyNames[3]))

\* "${C}${C}": the third key referenced twice
SameRefTwice == Str(Ref(KeyNames[3]) \o Ref(KeyNames[3]))

TemplateValues ==
    {Str(<<"v">>), Num(7), Str(Ref(Undefined)), DollarRef, BracedName, TwoRefs, SameRefTwice}
        \cup {Str(Ref(k)) : k \in TemplateKeys}
        \cup {Str(Ref(k) \o <<" ">> \o Ref(Undefined)) : k \in TemplateKeys}

TemplateMaps == PartialMaps(TemplateKeys, TemplateValues)

InitResolve ==
    /\ disk = EmptyMap
    /\ sopsYaml = NoLedger
    /\ cfg \in {[Values |-> m, files |-> <<>>] : m \in TemplateMaps}
    /\ ret = [NoResolution EXCEPT !.err = "none"]
    /\ ops = 0
    /\ written = EmptyMap

\* templating.NewResolver(cfg.Values).Resolve()
ResolveStep ==
    /\ ret.err = "none"
    /\ \E order \in Perms(DOMAIN cfg.Values) :
          ret' = Resolve(cfg.Values, order)
    /\ cfg' = [cfg EXCEPT !.Values = ret'.values]
    /\ UNCHANGED <<disk, sopsYaml, ops, written>>

\* templating.NewResolver(resolved).Resolve(), on the map a successful
\* Resolve returned
ResolveAgainStep ==
    /\ ret.err = "ok" /\ ops = 0
    /\ \E order \in Perms(DOMAIN ret.resolved) :
          ret' = Resolve(ret.resolved, order)
    /\ cfg' = [cfg EXCEPT !.Values = ret'.values]
    /\ ops' = 1
    /\ UNCHANGED <<disk, sopsYaml, written>>

NextResolve == ResolveStep \/ ResolveAgainStep

SpecResolve == InitResolve /\ [][NextResolve]_vars

ResolveReturned == ret.err # "none"

\* the names the string value of key k refers to
RefsOf(values, k) ==
    IF values[k].t = "str" THEN Range(FindAllStringSubmatch(values[k].s)) ELSE {}

\* the keys reached from the keys of S by following at most n references
RECURSIVE ReachWithin(_, _, _)
ReachWithin(values, S, n) ==
    IF n = 0 THEN S
    ELSE ReachWithin(values,
                     S \cup UNION {RefsOf(values, k) \cap DOMAIN values : k \in S}, n - 1)

\* k refers to itself directly or through other keys
OnCycle(values, k) ==
    /\ k \in DOMAIN values
    /\ k \in ReachWithin(values, RefsOf(values, k) \cap DOMAIN values,
                         Cardinality(DOMAIN values))

HasCycle(values) == \E k \in DOMAIN values : OnCycle(values, k)

HasUndefinedRef(values) ==
    \E k \in DOMAIN values : RefsOf(values, k) \ DOMAIN values # {}

\* C7 as stated: a map with a reference cycle of any length makes
\* resolution fail with a circular-reference error naming a key lying on
\* the cycle, and no value map is returned.
C7_CycleIsCircularError ==
    (ResolveReturned /\ HasCycle(cfg.Values))
        => /\ ret.err = "circular"
           /\ OnCycle(cfg.Values, ret.key)
           /\ ret.nilMap

\* C7 as amended: a map with a reference cycle of any length makes
\* resolution fail and return no value map; the error is a
\* circular-reference error naming a key lying on a cycle, or, only when
\* the map also refers to a name that is no key, an undefined-reference
\* error.
C7_CycleFails ==
    (ResolveReturned /\ HasCycle(cfg.Values))
        => /\ ret.nilMap
           /\ ret.resolved = EmptyMap
           /\ ret.err \in {"circular", "undefined"}
           /\ ret.err = "circular" => OnCycle(cfg.Values, ret.key)
           /\ ret.err = "undefined" => HasUndefinedRef(cfg.Values)

\* C7 witness: a cycle through all NumKeys keys has been reported as a
\* circular reference.
C7_Witness ==
    /\ ResolveReturned
    /\ DOMAIN cfg.Values = TemplateKeys
    /\ \A k \in TemplateKeys :
          ReachWithin(cfg.Values, {k}, NumKeys) = TemplateKeys /\ ~(k \in RefsOf(cfg.Values, k))
    /\ \A k \in TemplateKeys : Cardinality(RefsOf(cfg.Values, k)) = 1
    /\ ret.err = "circular"
    /\ ret.nilMap

\* the key was resolved on its own without error
ResolvesAlone(values, k) ==
    /\ k \in DOMAIN values
    /\ resolveValue(values, k, values[k], {}).err = "ok"

\* C8 as stated: when a string value reached while resolving a key K
\* contains ${NAME} and NAME is no key of the map, resolution fails with an
\* undefined-reference error naming the key whose value holds the
\* reference and NAME, and no value map is returned.
C8_UndefinedIsUndefinedError ==
    ResolveReturned
        => \A k \in ret.seen :
              \A name \in RefsOf(cfg.Values, k) \ DOMAIN cfg.Values :
                 /\ ret.err = "undefined"
                 /\ ret.key = k
                 /\ ret.ref = name
                 /\ ret.nilMap

\* C8 as amended: when a string value reached while resolving a key K
\* contains ${NAME}, NAME is no key of the map, and every reference before
\* it in that value resolves without error, resolution fails with an
\* undefined-reference error naming the key whose value holds the
\* reference and NAME, and no value map is returned.
C8_UndefinedReached ==
    ResolveReturned
        => \A k \in ret.seen :
              LET matches == FindAllStringSubmatch(cfg.Values[k].s)
              IN  \A j \in 1..Len(matches) :
                     (/\ matches[j] \notin DOMAIN cfg.Values
                      /\ \A i \in 1..(j - 1) : ResolvesAlone(cfg.Values, matches[i]))
                        => /\ ret.err = "undefined"
                           /\ ret.key = k
                           /\ ret.ref = matches[j]
                           /\ ret.nilMap
                           /\ ret.resolved = EmptyMap

\* C8 witness: the undefined name was met in the value of a key reached
\* through another key, after an earlier reference of that value resolved.
C8_Witness ==
    /\ ResolveReturned
    /\ ret.err = "undefined"
    /\ ret.ref = Undefined
    /\ Len(FindAllStringSubmatch(cfg.Values[ret.key].s)) = 2
    /\ \E k \in DOMAIN cfg.Values : k # ret.key /\ ret.key \in RefsOf(cfg.Values, k)
                                    /\ k \in ret.seen

\* the map the resolver of the step is made for
ResolverInput == IF ret.err = "none" THEN cfg.Values ELSE ret.resolved

\* a Resolve has run in the step
ResolveRan == ret.err = "none" \/ ops' = ops + 1

\* C21: a successful resolution returns a map with exactly the keys of the
\* input, and the input map is the same after the call as before it,
\* whether the resolution succeeds or fails.
C21_SameKeysInputUntouched ==
    [][ResolveRan
          => /\ ret'.values = ResolverInput
             /\ cfg'.Values = ResolverInput
             /\ ret'.err = "ok"
                   => (~ret'.nilMap /\ DOMAIN ret'.resolved = DOMAIN ResolverInput)]_vars

\* C21 witness: a map of NumKeys keys in which a reference was replaced has
\* been resolved, and the input still holds the reference
C21_Witness ==
    /\ ret.err = "ok" /\ ops = 0
    /\ DOMAIN ret.resolved = TemplateKeys
    /\ \E k \in TemplateKeys :
          /\ RefsOf(cfg.Values, k) # {}
          /\ ret.resolved[k] # cfg.Values[k]
          /\ ret.values[k] = cfg.Values[k]

\* C22 (as claimed): resolving the map a successful resolution returned
\* succeeds and returns that map unchanged.
C22_FixedPoint ==
    [][(ret.err = "ok" /\ ops = 0 /\ ops' = 1)
          => /\ ret'.err = "ok"
             /\ ret'.resolved = ret.resolved]_vars

\* C30: resolution returns for every map, with success or one of the two
\* errors; it reports a circular reference only when the key it names lies
\* on a reference cycle, and a map without cycle and without undefined
\* reference resolves, also when a key is reached along two reference paths
\* or referenced twice in one value.
C30_CircularOnlyOnCycle ==
    ResolveReturned
        => /\ ret.err \in {"ok", "circular", "undefined"}
           /\ ret.err = "circular" => OnCycle(cfg.Values, ret.key)
           /\ (~HasCycle(cfg.Values) /\ ~HasUndefinedRef(cfg.Values)) => ret.err = "ok"

\* C30 witness: A refers to B and C, B refers to C twice, C is a literal:
\* C is reached from A along two paths and twice from B, and the map has
\* been resolved
C30_Witness ==
    /\ ret.err = "ok" /\ ops = 0
    /\ DOMAIN cfg.Values = TemplateKeys
    /\ cfg.Values[KeyNames[1]] = TwoRefs
    /\ cfg.Values[KeyNames[2]] = SameRefTwice
    /\ cfg.Values[KeyNames[3]] = Str(<<"v">>)
    /\ ret.resolved[KeyNames[1]] = Str(<<"v", "v", "v">>)

(***************************************************************************)
(* config.Load: the precedence resolver                                    *)
(***************************************************************************)
\* the top-level key of the SOPS metadata
SOPS == <<"s", "o", "p", "s">>

\* A plaintext document with a top-level key "sops" that is written quoted,
\* so that its bytes do not contain the text sops:
QuotedSopsDoc(vals) == [PlainDoc(vals) EXCEPT !.sopsKey = "quoted"]

\* A plaintext document with a top-level key sops that is no SOPS metadata.
PlainSopsDoc(vals) == [PlainDoc(vals) EXCEPT !.sopsKey = "plain"]

\* A file that os.ReadFile cannot read (no permission, a directory).
UnreadableDoc == [PlainDoc(EmptyMap) EXCEPT !.bad = "read"]

\* A file whose bytes yaml.Unmarshal cannot turn into a map.
MalformedDoc == [PlainDoc(EmptyMap) EXCEPT !.bad = "parse"]

\* the value such a document gives its sops key
SopsText == Str(<<"x">>)

\* contains(data, "sops:")
isSopsEncrypted(doc) == doc.sopsKey \in {"meta", "plain"}

\* yaml.Unmarshal of the bytes of a document that was not decrypted
Unmarshal(doc) ==
    IF doc.sopsKey \in {"quoted", "plain"} THEN MapSet(doc.vals, SOPS, SopsText)
    ELSE doc.vals

\* filepath.Join: empty elements are ignored
Join(elems) == SelectSeq(elems, LAMBDA e : e # "")

\* the target tiers without the fixed "base" segment
filesToLoad_NoBaseSegment(app, env, target) ==
    <<Join(<<"base", "shared.yml">>)>>
    \o (IF app # "" THEN <<Join(<<"base", YmlName(app)>>)>> ELSE <<>>)
    \o (IF env # "" THEN <<Join(<<env, "shared.yml">>)>> ELSE <<>>)
    \o (IF env # "" /\ app # "" THEN <<Join(<<env, YmlName(app)>>)>> ELSE <<>>)
    \o (IF target # ""
        THEN <<Join(<<"target-overrides", target, env, "shared.yml">>)>>
        ELSE <<>>)
    \o (IF target # "" /\ app # ""
        THEN <<Join(<<"target-overrides", target, env, YmlName(app)>>)>>
        ELSE <<>>)

\* Load: the list of files to load, in precedence order
filesToLoad(app, env, target) ==
    <<Join(<<"base", "shared.yml">>)>>
    \o (IF app # "" THEN <<Join(<<"base", YmlName(app)>>)>> ELSE <<>>)
    \o (IF env # "" THEN <<Join(<<env, "shared.yml">>)>> ELSE <<>>)
    \o (IF env # "" /\ app # "" THEN <<Join(<<env, YmlName(app)>>)>> ELSE <<>>)
    \o (IF target # ""
        THEN LET targetEnv == IF env = "" THEN "base" ELSE env
             IN  <<Join(<<"target-overrides", target, targetEnv, "shared.yml">>)>>
        ELSE <<>>)
    \o (IF target # "" /\ app # ""
        THEN LET targetEnv == IF env = "" THEN "base" ELSE env
             IN  <<Join(<<"target-overrides", target, targetEnv, YmlName(app)>>)>>
        ELSE <<>>)

\* loadFile without the removal of the sops key
loadFile_KeepSops(c, d, path, identity) ==
    LET doc == FileAt(d, path)
    IN  IF ~doc.exists THEN [err |-> "not_exist", cfg |-> c]
        ELSE IF doc.bad = "read" THEN [err |-> "read", cfg |-> c]
        ELSE IF isSopsEncrypted(doc) /\ ~CanDecrypt(doc, ~identity)
        THEN [err |-> "decrypt", cfg |-> c]
        ELSE IF doc.bad = "parse" THEN [err |-> "parse", cfg |-> c]
        ELSE LET values == IF isSopsEncrypted(doc) THEN doc.vals ELSE Unmarshal(doc)
             IN  [err |-> "ok",
                  cfg |-> [Values |-> merge(c.Values, values),
                           files |-> Append(c.files, path)]]

\* loadFile: [err, cfg]; identity says whether the age identity that
\* unwraps the data key is at hand
loadFile(c, d, path, identity) ==
    LET doc == FileAt(d, path)
    IN  IF ~doc.exists THEN [err |-> "not_exist", cfg |-> c]
        ELSE IF doc.bad = "read" THEN [err |-> "read", cfg |-> c]
        ELSE IF isSopsEncrypted(doc) /\ ~CanDecrypt(doc, ~identity)
        THEN [err |-> "decrypt", cfg |-> c]
        ELSE IF doc.bad = "parse" THEN [err |-> "parse", cfg |-> c]
        ELSE LET data == IF isSopsEncrypted(doc) THEN doc.vals ELSE Unmarshal(doc)
                 values == MapDelete(data, SOPS)
             IN  [err |-> "ok",
                  cfg |-> [Values |-> merge(c.Values, values),
                           files |-> Append(c.files, path)]]

\* the loop of Load that skips a file on every error, not only a missing one
RECURSIVE loadFrom_SkipErrors(_, _, _, _, _)
loadFrom_SkipErrors(c, d, files, i, identity) ==
    IF i > Len(files) THEN [err |-> "ok", file |-> <<>>, cfg |-> c, tried |-> files]
    ELSE loadFrom_SkipErrors(loadFile(c, d, files[i], identity).cfg, d, files, i + 1,
                             identity)

\* for _, file := range filesToLoad, from the i-th file on; tried lists the
\* files handed to loadFile
RECURSIVE loadFrom(_, _, _, _, _)
loadFrom(c, d, files, i, identity) ==
    IF i > Len(files) THEN [err |-> "ok", file |-> <<>>, cfg |-> c, tried |-> files]
    ELSE LET r == loadFile(c, d, files[i], identity)
         IN  IF r.err \notin {"ok", "not_exist"}
             THEN [err |-> r.err, file |-> files[i], cfg |-> NoCfg,
                   tried |-> SubSeq(files, 1, i)]
             ELSE loadFrom(r.cfg, d, files, i + 1, identity)

\* the merge order turned round: the tiers are loaded highest first
Load_HighestFirst(d, app, env, target, identity) ==
    LET files == filesToLoad(app, env, target)
    IN  loadFrom(NoCfg, d, [i \in 1..Len(files) |-> files[Len(files) + 1 - i]], 1, identity)

Load(d, app, env, target, identity) ==
    loadFrom(NoCfg, d, filesToLoad(app, env, target), 1, identity)

(***************************************************************************)
(* get                                                                     *)
(***************************************************************************)
NoOutput == [format |-> "", entries |-> <<>>, secret |-> <<>>, base64 |-> FALSE]

RetRead0 ==
    [op |-> "none", err |-> "ok", key |-> NoName, app |-> "", env |-> "", target |-> "",
     value |-> NilValue, tried |-> <<>>, file |-> <<>>, resolved |-> EmptyMap,
     format |-> "", secretName |-> <<>>, out |-> NoOutput]

\* getAction: what the command returns and prints
getAction(d, key, app, env, target, identity, order) ==
    LET l == Load(d, app, env, target, identity)
        r == Resolve(l.cfg.Values, order)
        called == [RetRead0 EXCEPT !.op = "get", !.key = key, !.app = app, !.env = env,
                                   !.target = target, !.tried = l.tried]
    IN  IF l.err # "ok" THEN [called EXCEPT !.err = "load", !.file = l.file]
        ELSE IF r.err # "ok" THEN [called EXCEPT !.err = "resolve"]
        ELSE IF key \notin DOMAIN r.resolved
        THEN [called EXCEPT !.err = "key_not_found", !.resolved = r.resolved]
        ELSE [called EXCEPT !.value = r.resolved[key], !.resolved = r.resolved]

(***************************************************************************)
(* SpecLoad: get over a tree that holds any combination of the six tier    *)
(* documents of (api, dev, t1), the two documents of the "base" segment of *)
(* t1, and documents of another application, environment and target.       *)
(* Every document gives its keys a value of its own.                       *)
(***************************************************************************)
TierPaths ==
    << <<"base", "shared.yml">>,
       <<"base", "api.yml">>,
       <<"dev", "shared.yml">>,
       <<"dev", "api.yml">>,
       <<"target-overrides", "t1", "dev", "shared.yml">>,
       <<"target-overrides", "t1", "dev", "api.yml">> >>

BaseSegmentPaths ==
    << <<"target-overrides", "t1", "base", "shared.yml">>,
       <<"target-overrides", "t1", "base", "api.yml">> >>

OtherPaths ==
    << <<"base", "web.yml">>,
       <<"prod", "api.yml">>,
       <<"prod", "shared.yml">>,
       <<"target-overrides", "t2", "dev", "api.yml">>,
       <<"target-overrides", "t1", "shared.yml">>,
       <<"target-overrides", "t1", "api.yml">> >>

LoadPaths == TierPaths \o BaseSegmentPaths \o OtherPaths

L == <<"L">>

PUBLIC == <<"P", "U", "B", "L", "I", "C">>

\* an internal key
InternalX == <<"_", "X">>

\* the keys asked of get
GetKeys == {KEY, L, PUBLIC, InternalX, SOPS}

\* the value the i-th document of LoadPaths gives its keys
OwnValue(i) == Num(i)

\* what the i-th location can hold
DocChoices(i) ==
    IF i <= Len(TierPaths)
    THEN {NoFile, PlainDoc(KEY :> OwnValue(i)),
          EncDoc(KEY :> OwnValue(i) @@ L :> OwnValue(i), {K1}, 1)}
    ELSE IF i <= Len(TierPaths) + Len(BaseSegmentPaths)
    THEN {NoFile, PlainDoc(KEY :> OwnValue(i) @@ L :> OwnValue(i))}
    ELSE {PlainDoc(KEY :> OwnValue(i) @@ L :> OwnValue(i))}

\* the trees over the first i locations
RECURSIVE TreesUpTo(_)
TreesUpTo(i) ==
    IF i = 0 THEN {EmptyMap}
    ELSE {MapSet(d, LoadPaths[i], doc) : d \in TreesUpTo(i - 1), doc \in DocChoices(i)}

LoadTrees == TreesUpTo(Len(LoadPaths))

InitLoad ==
    /\ disk \in LoadTrees
    /\ sopsYaml = NoLedger
    /\ cfg = NoCfg
    /\ ret = RetRead0
    /\ ops = 0
    /\ written = EmptyMap

\* puff get -k key [-a app] [-e env] [-t target]
GetCmd ==
    /\ ret.op = "none"
    /\ \E key \in GetKeys, app \in {"", "api"}, env \in {"", "dev"}, target \in {"", "t1"},
          identity \in BOOLEAN :
          LET l == Load(disk, app, env, target, identity)
          IN  /\ cfg' = l.cfg
              /\ \E order \in Perms(DOMAIN l.cfg.Values) :
                    ret' = getAction(disk, key, app, env, target, identity, order)
    /\ UNCHANGED <<disk, sopsYaml, ops, written>>

NextLoad == GetCmd

SpecLoad == InitLoad /\ [][NextLoad]_vars

GetReturned == ret.op = "get"

\* the document name of an application
DocOf(app) == IF app = "api" THEN "api.yml" ELSE IF app = "web" THEN "web.yml" ELSE ""

\* the locations of the six tiers with the condition under which each is
\* part of a context: global-shared, base-app, env-shared, env-app,
\* target-shared, target-app
TierTable(app, env, target) ==
    LET E == IF env = "" THEN "base" ELSE env
    IN  << [on |-> TRUE, p |-> <<"base", "shared.yml">>],
           [on |-> app # "", p |-> <<"base", DocOf(app)>>],
           [on |-> env # "", p |-> <<env, "shared.yml">>],
           [on |-> env # "" /\ app # "", p |-> <<env, DocOf(app)>>],
           [on |-> target # "", p |-> <<"target-overrides", target, E, "shared.yml">>],
           [on |-> target # "" /\ app # "",
            p |-> <<"target-overrides", target, E, DocOf(app)>>] >>

\* the locations of a context, lowest tier first
ClaimedLocations(app, env, target) ==
    LET chosen == SelectSeq(TierTable(app, env, target), LAMBDA x : x.on)
    IN  [i \in 1..Len(chosen) |-> chosen[i].p]

\* the positions of locs whose document exists and defines key k
DefinedAt(d, locs, k) ==
    {i \in 1..Len(locs) : FileAt(d, locs[i]).exists /\ k \in DOMAIN FileAt(d, locs[i]).vals}

Highest(S) == CHOOSE i \in S : \A j \in S : j <= i

\* C4: for every context and every key with values in existing documents
\* of the context's tiers, the loaded value map (and get) gives the value
\* of the highest such tier in the order global-shared < base-app <
\* env-shared < env-app < target-shared < target-app; a key defined only in
\* lower tiers keeps its lower-tier value.
C4_HighestTierWins ==
    (GetReturned /\ ret.err # "load")
        => LET locs == ClaimedLocations(ret.app, ret.env, ret.target)
           IN  \A k \in {KEY, L} :
                  LET defs == DefinedAt(disk, locs, k)
                  IN  IF defs = {} THEN k \notin DOMAIN cfg.Values
                      ELSE /\ k \in DOMAIN cfg.Values
                           /\ cfg.Values[k] = FileAt(disk, locs[Highest(defs)]).vals[k]
                           /\ (ret.key = k /\ ret.err = "ok")
                                 => ret.value = FileAt(disk, locs[Highest(defs)]).vals[k]

\* C4 witness: all six tiers define K, the target-app value is returned,
\* and L, which the three highest tiers lack, keeps the env-shared value.
C4_Witness ==
    /\ GetReturned /\ ret.err = "ok"
    /\ ret.app = "api" /\ ret.env = "dev" /\ ret.target = "t1"
    /\ \A i \in 1..Len(TierPaths) : disk[TierPaths[i]].exists
    /\ \A i \in 4..6 : L \notin DOMAIN disk[TierPaths[i]].vals
    /\ L \in DOMAIN disk[TierPaths[3]].vals
    /\ ret.key = KEY /\ ret.value = OwnValue(6)
    /\ cfg.Values[L] = OwnValue(3)

\* q is p with some elements left out
RECURSIVE IsSubSeq(_, _)
IsSubSeq(q, p) ==
    IF Len(q) = 0 THEN TRUE
    ELSE IF Len(p) = 0 THEN FALSE
    ELSE IF Head(q) = Head(p) THEN IsSubSeq(Tail(q), Tail(p))
    ELSE IsSubSeq(q, Tail(p))

\* the segments a location of the context may be made of
OwnSegments(app, env, target) ==
    {"base", "shared.yml", "target-overrides"}
        \cup (IF app # "" THEN {DocOf(app)} ELSE {})
        \cup (IF env # "" THEN {env} ELSE {})
        \cup (IF target # "" THEN {target} ELSE {})

CharRank(c) == CHOOSE i \in 1..Len(Alphabet) : Alphabet[i] = c

\* a < b as Go compares strings
RECURSIVE Less(_, _)
Less(a, b) ==
    IF Len(b) = 0 THEN FALSE
    ELSE IF Len(a) = 0 THEN TRUE
    ELSE IF Head(a) = Head(b) THEN Less(Tail(a), Tail(b))
    ELSE CharRank(Head(a)) < CharRank(Head(b))

\* sort.Strings on the keys of a map
RECURSIVE SortStrings(_)
SortStrings(S) ==
    IF S = {} THEN <<>>
    ELSE LET least == CHOOSE x \in S : \A y \in S \ {x} : Less(x, y)
         IN  <<least>> \o SortStrings(S \ {least})

\* the text of a JSON string: quotes and backslashes escaped
RECURSIVE JsonEscape(_)
JsonEscape(cs) ==
    IF Len(cs) = 0 THEN <<>>
    ELSE (IF Head(cs) \in {"\"", "\\"} THEN <<"\\", Head(cs)>> ELSE <<Head(cs)>>)
            \o JsonEscape(Tail(cs))

RECURSIVE jsonMarshal(_)
RECURSIVE jsonElems(_, _)
RECURSIVE jsonMembers(_, _, _)
jsonElems(q, i) ==
    IF i > Len(q) THEN <<>>
    ELSE (IF i > 1 THEN <<",">> ELSE <<>>) \o jsonMarshal(q[i]) \o jsonElems(q, i + 1)

jsonMembers(m, keys, i) ==
    IF i > Len(keys) THEN <<>>
    ELSE (IF i > 1 THEN <<",">> ELSE <<>>)
            \o <<"\"">> \o JsonEscape(keys[i]) \o <<"\"", ":">> \o jsonMarshal(m[keys[i]])
            \o jsonMembers(m, keys, i + 1)

\* json.Marshal: compact, map keys sorted
jsonMarshal(value) ==
    CASE value.t = "str" -> <<"\"">> \o JsonEscape(value.s) \o <<"\"">>
      [] value.t = "num" -> Itoa(value.n)
      [] value.t = "bool" -> Sprintf(value)
      [] value.t = "seq" -> <<"[">> \o jsonElems(value.q, 1) \o <<"]">>
      [] value.t = "map" -> <<"{">> \o jsonMembers(value.m, SortStrings(DOMAIN value.m), 1)
                                  \o <<"}">>

\* the switch of formatEnv and formatK8s that turns a value into text
valueStr(value) ==
    CASE value.t = "str" -> value.s
      [] value.t \in {"map", "seq"} -> jsonMarshal(value)
      [] OTHER -> Sprintf(value)

\* strings.ContainsAny(value, " \t\n\r\"'$\\")
needsQuoting(value) ==
    \E i \in 1..Len(value) : value[i] \in {" ", "\t", "\n", "\r", "\"", "'", "$", "\\"}

\* quoteValue that escapes the quotes before the backslashes
quoteValue_QuotesFirst(value) ==
    LET escaped == ReplaceAll(ReplaceAll(value, <<"\"">>, <<"\\", "\"">>),
                              <<"\\">>, <<"\\", "\\">>)
    IN  <<"\"">> \o escaped \o <<"\"">>

quoteValue(value) ==
    LET escaped == ReplaceAll(ReplaceAll(value, <<"\\">>, <<"\\", "\\">>),
                              <<"\"">>, <<"\\", "\"">>)
    IN  <<"\"">> \o escaped \o <<"\"">>

\* base64.StdEncoding.EncodeToString, kept symbolic
Base64(text) == [t |-> "b64", s |-> text]

\* the lines KEY=VALUE
formatEnv(values) ==
    LET keys == SortStrings(DOMAIN values)
    IN  [i \in 1..Len(keys) |->
            LET text == valueStr(values[keys[i]])
            IN  [key |-> keys[i],
                 value |-> Str(IF needsQuoting(text) THEN quoteValue(text) ELSE text)]]

\* json.MarshalIndent: one member per key, keys sorted
formatJSON(values) ==
    LET keys == SortStrings(DOMAIN values)
    IN  [i \in 1..Len(keys) |->
            [key |-> keys[i], value |-> Str(jsonMarshal(values[keys[i]]))]]

\* yaml.Marshal: one node per key, keys sorted, values of their own type
formatYAML(values) ==
    LET keys == SortStrings(DOMAIN values)
    IN  [i \in 1..Len(keys) |-> [key |-> keys[i], value |-> values[keys[i]]]]

\* the entries of data or stringData of the secret
formatK8s(values, secretName, encodeBase64) ==
    LET keys == SortStrings(DOMAIN values)
    IN  [i \in 1..Len(keys) |->
            LET text == valueStr(values[keys[i]])
            IN  [key |-> keys[i],
                 value |-> IF encodeBase64 THEN Base64(text) ELSE Str(text)]]

\* FormatOutput that renders a manifest whatever the secret name
FormatOutput_NoCheck(values, format, secretName, base64) ==
    LET out == [NoOutput EXCEPT !.format = format]
    IN  CASE format = "env" -> [err |-> "ok", out |-> [out EXCEPT !.entries = formatEnv(values)]]
          [] format = "json" ->
                [err |-> "ok", out |-> [out EXCEPT !.entries = formatJSON(values)]]
          [] format = "yaml" ->
                [err |-> "ok", out |-> [out EXCEPT !.entries = formatYAML(values)]]
          [] format = "k8s" ->
                [err |-> "ok",
                 out |-> [out EXCEPT !.entries = formatK8s(values, secretName, base64),
                                     !.secret = secretName, !.base64 = base64]]
          [] OTHER -> [err |-> "unknown_format", out |-> NoOutput]

\* FormatOutput: [err, out]
FormatOutput(values, format, secretName, base64) ==
    LET out == [NoOutput EXCEPT !.format = format]
    IN  CASE format = "env" -> [err |-> "ok", out |-> [out EXCEPT !.entries = formatEnv(values)]]
          [] format = "json" ->
                [err |-> "ok", out |-> [out EXCEPT !.entries = formatJSON(values)]]
          [] format = "yaml" ->
                [err |-> "ok", out |-> [out EXCEPT !.entries = formatYAML(values)]]
          [] format = "k8s" ->
                IF secretName = <<>> THEN [err |-> "secret_name", out |-> NoOutput]
                ELSE [err |-> "ok",
                      out |-> [out EXCEPT !.entries = formatK8s(values, secretName, base64),
                                          !.secret = secretName, !.base64 = base64]]
          [] OTHER -> [err |-> "unknown_format", out |-> NoOutput]

(***************************************************************************)
(* generate                                                                *)
(***************************************************************************)
\* the filter that lets every key through
exportValues_All(resolved) == resolved

\* generateAction: the keys that do not begin with an underscore
exportValues(resolved) ==
    [key \in {k \in DOMAIN resolved : Len(k) > 0 /\ k[1] # "_"} |-> resolved[key]]

\* generateAction: what the command returns and writes
generateAction(d, app, env, target, format, secretName, base64, identity, order) ==
    LET l == Load(d, app, env, target, identity)
        r == Resolve(l.cfg.Values, order)
        f == FormatOutput(exportValues(r.resolved), format, secretName, base64)
        called == [RetRead0 EXCEPT !.op = "generate", !.app = app, !.env = env,
                                   !.target = target, !.format = format,
                                   !.secretName = secretName]
    IN  IF format \notin {"env", "json", "yaml", "k8s"}
        THEN [called EXCEPT !.err = "unknown_format"]
        ELSE IF format = "k8s" /\ secretName = <<>>
        THEN [called EXCEPT !.err = "secret_name"]
        ELSE IF l.err # "ok"
        THEN [called EXCEPT !.err = "load", !.file = l.file, !.tried = l.tried]
        ELSE IF r.err # "ok" THEN [called EXCEPT !.err = "resolve", !.tried = l.tried]
        ELSE IF f.err # "ok" THEN [called EXCEPT !.err = f.err, !.tried = l.tried]
        ELSE [called EXCEPT !.tried = l.tried, !.resolved = r.resolved, !.out = f.out]

(***************************************************************************)
(* SpecGenerate: get and generate over a tree of two documents,            *)
(* base/shared.yml and dev/api.yml, that hold internal and public keys,    *)
(* references to them, and a top-level sops key                            *)
(***************************************************************************)
SharedValues == {Str(<<"s">>), Num(7), Str(<<"a", " ">> \o Ref(InternalX))}

SharedMaps == PartialMaps({InternalX, PUBLIC}, SharedValues)

SharedDocs ==
    {NoFile, PlainSopsDoc(EmptyMap)}
        \cup {PlainDoc(m) : m \in SharedMaps}
        \cup {EncDoc(m, {K1}, 1) : m \in SharedMaps}
        \cup {QuotedSopsDoc(m) : m \in SharedMaps}

ApiDocs ==
    {NoFile, UnreadableDoc, MalformedDoc,
     PlainDoc(PUBLIC :> Str(Ref(InternalX))),
     EncDoc(InternalX :> Str(<<"t">>), {K1}, 1),
     QuotedSopsDoc(KEY :> Str(<<"b">>))}

InitGenerate ==
    /\ disk \in {(<<"base", "shared.yml">> :> shared) @@ (<<"dev", "api.yml">> :> api) :
                    shared \in SharedDocs, api \in ApiDocs}
    /\ sopsYaml = NoLedger
    /\ cfg = NoCfg
    /\ ret = RetRead0
    /\ ops = 0
    /\ written = EmptyMap

SecretNames == {<<>>, <<"s", "1">>}

\* puff generate -a api -e dev [-t target] -f format [--secret-name n] [--base64]
GenerateCmd ==
    /\ ret.op = "none"
    /\ \E format \in {"env", "json", "yaml", "k8s", "xml"}, secretName \in SecretNames,
          base64 \in BOOLEAN, target \in {"", "t1"}, identity \in BOOLEAN :
          LET l == Load(disk, "api", "dev", target, identity)
              loaded == format \in {"env", "json", "yaml"}
                           \/ (format = "k8s" /\ secretName # <<>>)
          IN  /\ cfg' = IF loaded THEN l.cfg ELSE cfg
              /\ \E order \in Perms(DOMAIN l.cfg.Values) :
                    ret' = generateAction(disk, "api", "dev", target, format, secretName,
                                          base64, identity, order)
    /\ UNCHANGED <<disk, sopsYaml, ops, written>>

\* output.FormatOutput called on the value map of a document of the tree
FormatStep ==
    /\ ret.op = "none"
    /\ \E p \in DOMAIN disk, format \in {"env", "json", "yaml", "k8s", "xml"},
          secretName \in SecretNames, base64 \in BOOLEAN :
          LET f == FormatOutput(disk[p].vals, format, secretName, base64)
          IN  ret' = [RetRead0 EXCEPT !.op = "format", !.err = f.err, !.file = p,
                                      !.format = format, !.secretName = secretName,
                                      !.out = f.out]
    /\ UNCHANGED <<disk, sopsYaml, cfg, ops, written>>

NextGenerate == GetCmd \/ GenerateCmd \/ FormatStep

SpecGenerate == InitGenerate /\ [][NextGenerate]_vars

GenerateReturned == ret.op = "generate"

GenerateSucceeded == GenerateReturned /\ ret.err = "ok"

\* the keys of the formatted output
OutputKeys(out) == {out.entries[i].key : i \in 1..Len(out.entries)}

\* the positions at which text s holds a "$"
DollarsOf(s) == {i \in 1..Len(s) : s[i] = "$"}

\* value is text whose only "$" opens a reference to name, at position i
RefersOnceTo(value, name, i) ==
    /\ value.t = "str"
    /\ HasPrefixAt(value.s, Ref(name), i)
    /\ DollarsOf(value.s) = {i}

\* the text with the reference at position i replaced by text sub
Substituted(s, name, i, sub) ==
    SubSeq(s, 1, i - 1) \o sub \o SubSeq(s, i + Len(Ref(name)), Len(s))

\* how encoding out writes the text e as a value
Written(out, e) ==
    CASE out.format = "env" ->
            Str(IF \E i \in 1..Len(e) : e[i] \in {" ", "\"", "'", "$", "\\"}
                THEN <<"\"">> \o JsonEscape(e) \o <<"\"">> ELSE e)
      [] out.format = "json" -> Str(<<"\"">> \o JsonEscape(e) \o <<"\"">>)
      [] out.format = "yaml" -> Str(e)
      [] out.format = "k8s" -> IF out.base64 THEN Base64(e) ELSE Str(e)

\* C9: in each of the encodings env, json, yaml and k8s no key beginning
\* with "_" is a key of the formatted output, while a public key whose
\* value refers to ${_X} is written with the value of _X in the place of
\* the reference.
C9_InternalKeysFiltered ==
    GenerateSucceeded
        => /\ \A k \in OutputKeys(ret.out) : Len(k) > 0 /\ k[1] # "_"
           /\ \A k \in DOMAIN cfg.Values, i \in 1..3 :
                 (/\ k[1] # "_"
                  /\ RefersOnceTo(cfg.Values[k], InternalX, i)
                  /\ InternalX \in DOMAIN cfg.Values
                  /\ cfg.Values[InternalX].t \in {"str", "num"}
                  /\ DollarsOf(Sprintf(cfg.Values[InternalX])) = {})
                    => \E n \in 1..Len(ret.out.entries) :
                          /\ ret.out.entries[n].key = k
                          /\ ret.out.entries[n].value =
                                Written(ret.out, Substituted(cfg.Values[k].s, InternalX, i,
                                                             Sprintf(cfg.Values[InternalX])))

\* C9 witness: _X = t of dev/api.yml has been written into PUBLIC = "a ${_X}"
\* of base/shared.yml, quoted for the env encoding, and PUBLIC is the only
\* key of the output.
C9_Witness ==
    /\ GenerateSucceeded
    /\ ret.out.format = "env"
    /\ InternalX \in DOMAIN cfg.Values
    /\ cfg.Values[InternalX] = Str(<<"t">>)
    /\ ret.out.entries = <<[key |-> PUBLIC, value |-> Str(<<"\"", "a", " ", "t", "\"">>)]>>

\* C10: the top-level sops key of a loaded document is never a key of the
\* merged value map, so get never returns it and no generate output has it
\* as a key.
C10_NoSopsKey ==
    (GetReturned \/ GenerateReturned)
        => /\ SOPS \notin DOMAIN cfg.Values
           /\ SOPS \notin DOMAIN ret.resolved
           /\ SOPS \notin OutputKeys(ret.out)
           /\ (GetReturned /\ ret.key = SOPS) => ret.err \in {"load", "resolve", "key_not_found"}

\* C10 witness: get asked for the key sops after an encrypted document and
\* a plaintext document with a top-level sops key were loaded, and found
\* no such key though other keys were loaded.
C10_Witness ==
    /\ GetReturned
    /\ ret.key = SOPS
    /\ ret.err = "key_not_found"
    /\ Len(cfg.files) = 2
    /\ disk[cfg.files[1]].sopsKey = "meta"
    /\ disk[cfg.files[2]].sopsKey = "quoted"
    /\ DOMAIN ret.resolved # {}

\* the file is there and loadFile cannot load it, whoever runs the command
NeverLoads(doc) == doc.exists /\ (doc.bad # "none" \/ doc.sopsKey = "plain")

\* the file is there and loadFile can fail on it
CanFailToLoad(doc) == doc.exists /\ (doc.bad # "none" \/ isSopsEncrypted(doc))

\* get or generate has called Load
LoadReturned ==
    \/ GetReturned
    \/ GenerateReturned /\ ret.err \notin {"unknown_format", "secret_name"}

\* C23: a candidate location that does not exist is skipped without error
\* and contributes nothing; a read, decrypt or parse failure on a candidate
\* location aborts the load with an error that names the location, and no
\* value map is returned.
C23_MissingSkippedOthersAbort ==
    LoadReturned
        => IF ret.err = "load"
           THEN /\ ret.tried # <<>> /\ ret.file = Last(ret.tried)
                /\ CanFailToLoad(FileAt(disk, ret.file))
                /\ \A i \in 1..(Len(ret.tried) - 1) : ~NeverLoads(FileAt(disk, ret.tried[i]))
                /\ cfg = NoCfg /\ ret.resolved = EmptyMap
           ELSE /\ ret.tried = filesToLoad(ret.app, ret.env, ret.target)
                /\ \A i \in 1..Len(ret.tried) : ~NeverLoads(FileAt(disk, ret.tried[i]))
                /\ cfg.files = SelectSeq(ret.tried, LAMBDA f : FileAt(disk, f).exists)

\* C23 witness: base/shared.yml was loaded, the missing dev/shared.yml was
\* skipped, and the load stopped at dev/api.yml, which cannot be parsed
C23_Witness ==
    /\ GetReturned /\ ret.err = "load"
    /\ ret.tried = << <<"base", "shared.yml">>, <<"base", "api.yml">>,
                      <<"dev", "shared.yml">>, <<"dev", "api.yml">> >>
    /\ disk[<<"base", "shared.yml">>].exists
    /\ DOMAIN disk[<<"base", "shared.yml">>].vals # {}
    /\ disk[<<"dev", "api.yml">>] = MalformedDoc
    /\ ret.file = <<"dev", "api.yml">>

\* C20: formatting as a secret manifest (k8s) with an empty secret name
\* fails with the missing-secret-name error and yields no output; generate
\* rejects such a request before it loads any document.
C20_K8sNeedsSecretName ==
    (/\ ret.op \in {"format", "generate"}
     /\ ret.format = "k8s" /\ ret.secretName = <<>>)
        => /\ ret.err = "secret_name"
           /\ ret.out = NoOutput
           /\ ret.op = "generate" => (ret.tried = <<>> /\ cfg = NoCfg)

\* C20 witness: generate -f k8s without a secret name has been rejected in a
\* tree whose two documents exist and could have been loaded
C20_Witness ==
    /\ ret.op = "generate" /\ ret.format = "k8s" /\ ret.secretName = <<>>
    /\ ret.err = "secret_name"
    /\ \A p \in DOMAIN disk : disk[p].exists /\ ~isSopsEncrypted(disk[p])
    /\ PUBLIC \in DOMAIN disk[<<"base", "shared.yml">>].vals

(***************************************************************************)
(* SpecSet: set at every tier of the contexts over (api, base | dev, t1),  *)
(* in a directory that was or was not initialised, followed by one get.    *)
(* The variable written logs the successful sets in the order they ran.    *)
(***************************************************************************)
MaxSets == 2

SetApps == {"", "api"}

SetEnvs == {"", "base", "dev"}

SetTargets == {"", "t1"}

SetTierPaths ==
    {SetPath(app, env, target) : app \in SetApps, env \in SetEnvs, target \in SetTargets}

SetKeys == {KEY, L}

V2 == Str(<<"b">>)

SetValues == {V1, V2, Str(Ref(Undefined))}

\* the tree puff init -k age1k1 leaves behind
InitialisedTree ==
    [p \in SetTierPaths |->
        IF p = <<"base", SharedYml>>
        THEN initAction([q \in SetTierPaths |-> NoFile], NoLedger, <<K1>>, 1, FALSE).disk[p]
        ELSE NoFile]

InitSet ==
    /\ disk \in {[p \in SetTierPaths |-> NoFile], InitialisedTree}
    /\ sopsYaml = NoLedger
    /\ cfg = NoCfg
    /\ ret = RetRead0
    /\ ops = 0
    /\ written = <<>>

\* puff set -k key -v value [-a app] [-e env] [-t target]
SetTierCmd ==
    /\ ops < MaxSets
    /\ ret.op # "get"
    /\ \E key \in SetKeys, value \in SetValues, app \in SetApps, env \in SetEnvs,
          target \in SetTargets, fault \in {"none", "decrypt", "encrypt"} :
          LET filePath == SetPath(app, env, target)
              r == setAction(disk, key, value, app, env, target,
                             FreshDataKey(disk[filePath].dk), fault)
          IN  /\ disk' = r.disk
              /\ ret' = [RetRead0 EXCEPT !.op = "set", !.err = r.err, !.key = key,
                                         !.app = app, !.env = env, !.target = target,
                                         !.value = value, !.file = filePath]
              /\ written' = IF r.err = "ok"
                            THEN Append(written, [key |-> key, app |-> app, env |-> env,
                                                  target |-> target, value |-> value])
                            ELSE written
    /\ ops' = ops + 1
    /\ UNCHANGED <<sopsYaml, cfg>>

\* puff get -k key [-a app] [-e env] [-t target], after the sets, by a holder
\* of the age identity
GetTierCmd ==
    /\ ret.op # "get"
    /\ \E key \in SetKeys, app \in SetApps, env \in SetEnvs, target \in SetTargets :
          LET l == Load(disk, app, env, target, TRUE)
          IN  /\ cfg' = l.cfg
              /\ \E order \in Perms(DOMAIN l.cfg.Values) :
                    ret' = getAction(disk, key, app, env, target, TRUE, order)
    /\ ops' = ops + 1
    /\ UNCHANGED <<disk, sopsYaml, written>>

NextSet == SetTierCmd \/ GetTierCmd

SpecSet == InitSet /\ [][NextSet]_vars

SetReturnedOk == ret.op = "set" /\ ret.err = "ok"

\* the logged sets of key k whose context satisfies Same
SetsOf(k, Same(_)) == SelectSeq(written, LAMBDA w : w.key = k /\ Same(w))

SameContext(w) == w.app = ret.app /\ w.env = ret.env /\ w.target = ret.target

HasReference(value) == value.t = "str" /\ Len(FindAllStringSubmatch(value.s)) > 0

\* C17 (as claimed): a get of K that could load its documents returns the
\* value V of the most recent successful set of K made with the same
\* (app, env, target), when V holds no reference.
C17_LastWriterWinsPerContext ==
    (/\ ret.op = "get" /\ ret.err # "load"
     /\ SetsOf(ret.key, SameContext) # <<>>
     /\ ~HasReference(Last(SetsOf(ret.key, SameContext)).value))
        => /\ ret.err = "ok"
           /\ ret.value = Last(SetsOf(ret.key, SameContext)).value

MaxText == 2

EnvChars == {"a", " ", "\t", "\n", "\r", "\f", "\"", "'", "$", "\\"}

RECURSIVE TextsUpTo(_)
TextsUpTo(n) ==
    IF n = 0 THEN {<<>>}
    ELSE TextsUpTo(n - 1) \cup {Append(t, c) : t \in TextsUpTo(n - 1), c \in EnvChars}

EnvTexts == {Str(t) : t \in TextsUpTo(MaxText)}

EnvOthers == {Str(<<"x">>), Num(7), Bool(TRUE), MapV(L :> Str(<<"q">>))}

\* in byte order: "Ab" < "B" < "a"
EnvKeyAb == <<"A", "b">>

EnvKeyB == <<"B">>

EnvKeyA == <<"a">>

EnvMaps ==
    {m1 @@ m2 @@ m3 : m1 \in PartialMaps({EnvKeyB}, EnvTexts),
                      m2 \in PartialMaps({EnvKeyAb}, EnvOthers),
                      m3 \in PartialMaps({EnvKeyA}, EnvOthers)}

InitEnv ==
    /\ disk = EmptyMap
    /\ sopsYaml = NoLedger
    /\ cfg \in {[Values |-> m, files |-> <<>>] : m \in EnvMaps}
    /\ ret = RetRead0
    /\ ops = 0
    /\ written = EmptyMap

\* output.FormatOutput(values, FormatOptions{Format: FormatEnv})
EnvStep ==
    /\ ret.op = "none"
    /\ LET f == FormatOutput(cfg.Values, "env", <<>>, FALSE)
       IN  ret' = [RetRead0 EXCEPT !.op = "format", !.err = f.err, !.format = "env",
                                   !.out = f.out]
    /\ UNCHANGED <<disk, sopsYaml, cfg, ops, written>>

NextEnv == EnvStep

SpecEnv == InitEnv /\ [][NextEnv]_vars

EnvReturned == ret.op = "format" /\ ret.format = "env"

\* the characters of white space (unicode.IsSpace, within EnvChars)
WhiteSpace == {" ", "\t", "\n", "\r", "\f"}

\* every backslash and double quote of text with a backslash in front
RECURSIVE Escaped(_)
Escaped(text) ==
    IF Len(text) = 0 THEN <<>>
    ELSE (IF Head(text) \in {"\\", "\""} THEN <<"\\", Head(text)>> ELSE <<Head(text)>>)
            \o Escaped(Tail(text))

\* the text of a value before quoting: a string as it is, a number or a
\* boolean in its usual notation, a nested map as JSON
PlainText(value) ==
    CASE value = Num(7) -> <<"7">>
      [] value = Bool(TRUE) -> <<"t", "r", "u", "e">>
      [] value = MapV(L :> Str(<<"q">>)) -> <<"{", "\"", "L", "\"", ":", "\"", "q", "\"", "}">>
      [] OTHER -> value.s

\* the entries are one per key, in ascending key order, and each value is
\* wrapped in double quotes, with backslashes and double quotes escaped,
\* exactly when its text has a character of Special
EnvEncodedWith(Special) ==
    LET entries == ret.out.entries
    IN  /\ ret.err = "ok"
        /\ Len(entries) = Cardinality(DOMAIN cfg.Values)
        /\ {entries[i].key : i \in 1..Len(entries)} = DOMAIN cfg.Values
        /\ \A i \in 1..(Len(entries) - 1) : Less(entries[i].key, entries[i + 1].key)
        /\ \A i \in 1..Len(entries) :
              LET text == PlainText(cfg.Values[entries[i].key])
              IN  entries[i].value =
                     Str(IF Range(text) \cap Special # {}
                         THEN <<"\"">> \o Escaped(text) \o <<"\"">>
                         ELSE text)

ListPaths ==
    { <<"base", "shared.yml">>,
      <<"dev", "shared.yml">>,
      <<"target-overrides", "t1", "dev", "shared.yml">> }

ListDocs ==
    {NoFile, PlainDoc(KEY :> V1)} \cup
    {EncDoc(KEY :> V1, recips, 1) : recips \in (SUBSET ValidKeys) \ {{}}}

\* .sops.yaml after init -k age1k1,age1k2 and keys add -c laptop for some keys
ListLedgers ==
    {SaveSOPSConfig([exists |-> TRUE, keys |-> <<K1, K2>>, comments |-> c]) :
        c \in PartialMaps(ValidKeys, {"laptop"})}

\* keysListAction: [err, listing]; the listing holds, per key, the Comment
\* and Envs fields of the KeyInfo that ListKeys returned (ListKeys fills in
\* Key and Envs only, Comment keeps its zero value)
keysListAction(d, unreadable, walk) ==
    LET r == ListKeys(d, unreadable, walk)
    IN  [err |-> r.err,
         listing |-> [k \in DOMAIN r.keys |-> [Comment |-> "", Envs |-> r.keys[k]]]]

InitList ==
    /\ disk \in [ListPaths -> ListDocs]
    /\ sopsYaml \in ListLedgers
    /\ cfg = NoCfg
    /\ ret = Ret0
    /\ ops = 0
    /\ written = EmptyMap

ListStep ==
    /\ ret.op = "none"
    /\ \E unreadable \in {{}, {<<"dev", "shared.yml">>}}, walk \in BOOLEAN :
          LET r == keysListAction(disk, unreadable, walk)
          IN  ret' = [Ret0 EXCEPT !.op = "list", !.err = r.err, !.listed = r.listing,
                                  !.unreadable = unreadable]
    /\ UNCHANGED <<disk, sopsYaml, cfg, ops, written>>

NextList == ListStep

SpecList == InitList /\ [][NextList]_vars

\* the tier that owns the document at path p
TierOf(p) ==
    IF p[1] = "target-overrides" THEN <<"target:", p[2]>>
    ELSE IF p[1] = "base" THEN <<"base">>
    ELSE <<p[1]>>

\* the comment the ledger records for key k ("" when it records none)
LedgerComment(k) ==
    IF k \in DOMAIN sopsYaml.comments /\ sopsYaml.comments[k] # NoComment
    THEN sopsYaml.comments[k] ELSE ""

\* C25: keys list reports every recipient of any encrypted document, with
\* its ledger comment and the set of tiers that own it: global (base) for a
\* document under base/, the environment for one under <env>/, the target
\* tier of <target> for one under target-overrides/<target>/<env>/.
C25_ListReportsTiers ==
    (ret.op = "list" /\ ret.err = "ok" /\ ret.unreadable = {}) =>
        /\ DOMAIN ret.listed = UNION {disk[p].recips : p \in EncryptedDocs}
        /\ \A k \in DOMAIN ret.listed :
              /\ ret.listed[k].Comment = LedgerComment(k)
              /\ Range(ret.listed[k].Envs) =
                    {TierOf(p) : p \in {q \in EncryptedDocs : k \in disk[q].recips}}

(***************************************************************************)
(* SpecConfig: goroutines calling the accessors of one Config.  cfg.mu is  *)
(* the sync.RWMutex of the Config: w is the goroutine that has taken the   *)
(* writer side (waiting for the readers to leave, or writing), readers the *)
(* goroutines that hold a read lock, blocked the goroutines whose RLock    *)
(* found a writer and waits for its Unlock.  ret maps a goroutine to the   *)
(* call it is in, its position in it and what the call returned; ops       *)
(* counts the calls made.                                                  *)
(***************************************************************************)
MaxCalls == 3

Goroutines == {"g1", "g2", "g3"}

ReadMethods == {"Get", "GetString", "Keys", "ExportKeys", "Files"}

Methods == ReadMethods \cup {"Set"}

NoMutex == [w |-> "", readers |-> {}, blocked |-> {}]

\* RLock that does not look at the writer
RLock_IgnoreWriter(mu, g) == [mu EXCEPT !.readers = @ \cup {g}]

\* c.mu.RLock(): admitted at once unless a writer has announced itself
RLock(mu, g) ==
    IF mu.w = "" THEN [mu EXCEPT !.readers = @ \cup {g}]
    ELSE [mu EXCEPT !.blocked = @ \cup {g}]

\* c.mu.RUnlock()
RUnlock(mu, g) == [mu EXCEPT !.readers = @ \ {g}]

\* c.mu.Lock(), once no other writer has the writer side
Lock(mu, g) == [mu EXCEPT !.w = g]

\* c.mu.Unlock(): the readers that were blocked are admitted together
Unlock(mu, g) == [w |-> "", readers |-> mu.blocked, blocked |-> {}]

NoCall == [call |-> "none", pc |-> "idle", key |-> <<>>, value |-> Str(<<>>),
           val |-> Str(<<>>), ok |-> FALSE, keys |-> {}, files |-> <<>>]

ConfigKeys == {KEY, InternalX}

ConfigValues == {V1}

InitConfig ==
    /\ disk = EmptyMap
    /\ sopsYaml = NoLedger
    /\ cfg \in {[Values |-> m, files |-> <<<<"base", "shared.yml">>>>, mu |-> NoMutex] :
                   m \in {EmptyMap, (KEY :> Num(7)) @@ (InternalX :> V1)}}
    /\ ret = [g \in Goroutines |-> NoCall]
    /\ ops = 0
    /\ written = EmptyMap

\* a goroutine calls an accessor or Set
CallStep ==
    /\ ops < MaxCalls
    /\ \E g \in Goroutines, method \in Methods, key \in ConfigKeys, value \in ConfigValues :
          /\ ret[g].pc = "idle"
          /\ ret' = [ret EXCEPT ![g] =
                        [NoCall EXCEPT !.call = method,
                                       !.pc = IF method = "Set" THEN "Lock" ELSE "RLock",
                                       !.key = IF method \in {"Get", "GetString", "Set"}
                                               THEN key ELSE <<>>,
                                       !.value = IF method = "Set" THEN value ELSE Str(<<>>)]]
    /\ ops' = ops + 1
    /\ UNCHANGED <<disk, sopsYaml, cfg, written>>

\* c.mu.RLock()
RLockStep ==
    \E g \in Goroutines :
        /\ ret[g].pc = "RLock"
        /\ cfg' = [cfg EXCEPT !.mu = RLock(cfg.mu, g)]
        /\ ret' = [ret EXCEPT ![g].pc = IF g \in cfg'.mu.readers THEN "read" ELSE "RLockWait"]
        /\ UNCHANGED <<disk, sopsYaml, ops, written>>

\* a blocked RLock returns after the writer's Unlock
RLockWake ==
    \E g \in Goroutines :
        /\ ret[g].pc = "RLockWait"
        /\ g \in cfg.mu.readers
        /\ ret' = [ret EXCEPT ![g].pc = "read"]
        /\ UNCHANGED <<disk, sopsYaml, cfg, ops, written>>

\* the body of Get, Keys, ExportKeys and Files under the read lock
ReadStep ==
    \E g \in Goroutines :
        /\ ret[g].pc = "read"
        /\ LET r == ret[g]
               has == r.key \in DOMAIN cfg.Values
           IN  ret' = [ret EXCEPT ![g] =
                 CASE r.call \in {"Get", "GetString"} ->
                        [r EXCEPT !.pc = "RUnlock", !.ok = has,
                                  !.val = IF has THEN cfg.Values[r.key] ELSE Str(<<>>)]
                   [] r.call = "Keys" ->
                        [r EXCEPT !.pc = "RUnlock", !.keys = DOMAIN cfg.Values]
                   [] r.call = "ExportKeys" ->
                        [r EXCEPT !.pc = "RUnlock",
                                  !.keys = {k \in DOMAIN cfg.Values :
                                               Len(k) > 0 /\ k[1] # "_"}]
                   [] OTHER ->
                        [r EXCEPT !.pc = "RUnlock", !.files = cfg.files]]
        /\ UNCHANGED <<disk, sopsYaml, cfg, ops, written>>

\* defer c.mu.RUnlock(); Get, Keys, ExportKeys and Files return
RUnlockStep ==
    \E g \in Goroutines :
        /\ ret[g].pc = "RUnlock"
        /\ cfg' = [cfg EXCEPT !.mu = RUnlock(cfg.mu, g)]
        /\ ret' = [ret EXCEPT ![g].pc = IF ret[g].call = "GetString" THEN "assert" ELSE "idle"]
        /\ UNCHANGED <<disk, sopsYaml, ops, written>>

\* GetString after c.Get: str, ok := val.(string)
AssertStep ==
    \E g \in Goroutines :
        /\ ret[g].pc = "assert"
        /\ LET isString == ret[g].ok /\ ret[g].val.t = "str"
           IN  ret' = [ret EXCEPT ![g].pc = "idle", ![g].ok = isString,
                                  ![g].val = IF isString THEN ret[g].val ELSE Str(<<>>)]
        /\ UNCHANGED <<disk, sopsYaml, cfg, ops, written>>

\* c.mu.Lock(): take the writer side, then wait for the readers to leave
LockStep ==
    \E g \in Goroutines :
        /\ ret[g].pc = "Lock"
        /\ cfg.mu.w = ""
        /\ cfg' = [cfg EXCEPT !.mu = Lock(cfg.mu, g)]
        /\ ret' = [ret EXCEPT ![g].pc = IF cfg.mu.readers = {} THEN "write" ELSE "LockWait"]
        /\ UNCHANGED <<disk, sopsYaml, ops, written>>

\* Lock returns when the last reader has left
LockWake ==
    \E g \in Goroutines :
        /\ ret[g].pc = "LockWait"
        /\ cfg.mu.readers = {}
        /\ ret' = [ret EXCEPT ![g].pc = "write"]
        /\ UNCHANGED <<disk, sopsYaml, cfg, ops, written>>

\* c.Values[key] = value
WriteStep ==
    \E g \in Goroutines :
        /\ ret[g].pc = "write"
        /\ cfg' = [cfg EXCEPT !.Values = MapSet(@, ret[g].key, ret[g].value)]
        /\ ret' = [ret EXCEPT ![g].pc = "Unlock"]
        /\ UNCHANGED <<disk, sopsYaml, ops, written>>

\* defer c.mu.Unlock(); Set returns
UnlockStep ==
    \E g \in Goroutines :
        /\ ret[g].pc = "Unlock"
        /\ cfg' = [cfg EXCEPT !.mu = Unlock(cfg.mu, g)]
        /\ ret' = [ret EXCEPT ![g].pc = "idle"]
        /\ UNCHANGED <<disk, sopsYaml, ops, written>>

NextConfig ==
    \/ CallStep
    \/ RLockStep
    \/ RLockWake
    \/ ReadStep
    \/ RUnlockStep
    \/ AssertStep
    \/ LockStep
    \/ LockWake
    \/ WriteStep
    \/ UnlockStep

SpecConfig == InitConfig /\ [][NextConfig]_vars

\* the steps of the calls in progress: every goroutine that can run is
\* scheduled again, and Unlock and RUnlock wake the goroutines they release
RunStep ==
    \/ RLockStep
    \/ RLockWake
    \/ ReadStep
    \/ RUnlockStep
    \/ AssertStep
    \/ LockStep
    \/ LockWake
    \/ WriteStep
    \/ UnlockStep

GoroutineStep(g) == RunStep /\ ret'[g] # ret[g]

SpecConfigFair ==
    SpecConfig /\ \A g \in Goroutines : WF_vars(GoroutineStep(g))

\* g is between RLock and RUnlock of an accessor
Reading(g) == ret[g].pc \in {"read", "RUnlock"}

\* g is between Lock and Unlock of Set
Writing(g) == ret[g].pc \in {"write", "Unlock"}

InCall(g) == ret[g].pc # "idle"

ReadersExcludeWriters ==
    /\ \A g, h \in Goroutines : Writing(h) /\ g # h => ~Reading(g) /\ ~Writing(g)
    /\ \A g \in Goroutines :
          ~InCall(g) \/ ret[g].pc = "assert" =>
              /\ g \notin cfg.mu.readers \cup cfg.mu.blocked
              /\ cfg.mu.w # g

\* C26: on one Config, no accessor reads the value map or the file list
\* while a Set is writing it and no two Sets write together, a goroutine
\* that is not inside a call holds no lock, and every call that was made
\* eventually returns.
C26_AccessorsExclusiveAndReturn ==
    /\ []ReadersExcludeWriters
    /\ \A g \in Goroutines : InCall(g) ~> ~InCall(g)

\* C26 witness: two accessors read at the same time while a Set waits for
\* them to leave
C26_Witness ==
    /\ Reading("g1") /\ Reading("g2")
    /\ ret["g3"].pc = "LockWait"
    /\ cfg.mu.w = "g3"

(***************************************************************************)
(* Claims about set, keys rm and encrypt in the recipient lifecycle (Spec) *)
(***************************************************************************)
\* C27: a successful set on an existing encrypted document leaves the
\* document with exactly the recipients it had before; a key that keys add
\* gave to the documents of one environment only does not reach the
\* document of another one through a later set.
C27_SetPreservesRecipients ==
    [][(/\ ops' = ops + 1
        /\ ret'.op = "set" /\ ret'.err = "ok"
        /\ disk[ret'.file].exists /\ disk[ret'.file].enc)
       => disk'[ret'.file].recips = disk[ret'.file].recips]_vars

\* C28: a keys rm that fails, with the last-recipient error or with any
\* error on a document, leaves the ledger as it was before the call.
C28_FailedRemoveKeepsLedger ==
    [][(/\ ops' = ops + 1
        /\ ret'.op = "rm" /\ ret'.err # "ok")
       => sopsYaml' = sopsYaml]_vars

\* C29: once set or encrypt has returned, with or without an error, every
\* document that was encrypted before the command is encrypted: it is its
\* previous encrypted version or a new encrypted version, never plaintext.
C29_NoPlaintextLeftBehind ==
    [][(/\ ops' = ops + 1
        /\ ret'.op \in {"set", "encrypt"})
       => \A p \in DOMAIN disk :
             disk[p].exists /\ disk[p].enc => disk'[p].exists /\ disk'[p].enc]_vars

====
